---- MODULE Spec2Model ----
(***************************************************************************)
(* Document-indexing core of Agent_Algernon.                                *)
(*                                                                          *)
(*   SpecSplit : the token-bounded splitter, in its two source forms:       *)
(*               StreamlitApp.create_document_splits (app/streamlit_app.py) *)
(*               and the inline loop of render_token_analysis (api.py).     *)
(*                                                                          *)
(* Texts are sequences of one-character strings; offsets are 0-based as in  *)
(* Python, and Slice(t, a, b) is t[a:b].                                    *)
(***************************************************************************)
EXTENDS Integers, Sequences, FiniteSets, TLC

VARIABLES
    \* ---- token-bounded splitter ----
    variant,            \* which routine runs: "method" | "inline"
    content,            \* content / doc_content
    max_tokens,         \* max_tokens / max_chunk_size
    tokenizer,          \* the tokenizer handed in (its vocabulary kind)
    current_position,   \* current_position
    splits,             \* splits
    pc,                 \* "loop" while the while-loop runs, "done" after it
    found,              \* what the two binary searches, applied to
                        \* content[current_position:], settled on
    \* ---- VectorStore instance and the Store collection it writes ----
    chunks,             \* self.chunks
    codebooks,          \* self.codebooks: per segment the fitted cluster_centers_
    pq_codes,           \* self.pq_codes
    segment_size,       \* self.segment_size (None until trained)
    store,              \* points of collection "vector_embeddings": id -> point
    embedding_model,    \* the embedding the BERT model computes for each text
    call,               \* the last process_document call: how it ended, what
                        \* it returned and what it sent to the Store
    ann,                \* the last approximate_nearest_neighbor call: its
                        \* arguments and how it ended
    pq_call,            \* the last direct call of a quantizer routine
                        \* (train_product_quantizer, encode_vectors,
                        \* _create_embeddings, the reconstruction loop)
    \* ---- connecting to the Store ----
    conn,               \* the running or last connect call: routine,
                        \* max_retries, loop variable, position, result
    is_connected,       \* QdrantService.is_connected
    svc_call,           \* the last store_vectors / search_similar call
    \* ---- one _create_chunks call followed step by step ----
    ck,                 \* text, chunk_size, overlap, start, chunks, the depth
                        \* of the fallback recursion, and the position
    \* ---- the segment layout of the quantizer for a dimension and an ----
    \* ---- n_segments ----
    layout,             \* dim, n_segments, segment_size and the index ranges
                        \* cut by each routine applied so far
    \* ---- one Streamlit session of StreamlitApp ----
    ui,                 \* the query_running flags of st.session_state, the
                        \* position of the script run, the click waiting
    saved,              \* data/responses.json and
                        \* st.session_state.saved_responses
    \* ---- one monitor_service_status call ----
    mon                 \* max_checks, check_count, last_status, the last
                        \* status fetched, the position and the result

splitVars == <<variant, content, max_tokens, tokenizer, current_position, splits, pc, found>>

vsVars == <<chunks, codebooks, pq_codes, segment_size, store, embedding_model, call, ann, pq_call>>

svcVars == <<conn, is_connected, svc_call>>

ckVars == <<ck>>

appVars == <<layout, ui, saved, mon>>

vars == <<variant, content, max_tokens, tokenizer, current_position, splits, pc, found,
          chunks, codebooks, pq_codes, segment_size, store, embedding_model, call, ann,
          pq_call, conn, is_connected, svc_call, ck, layout, ui, saved, mon>>

----------------------------------------------------------------------------
(* Bounds of the model *)

\* longest document text
MaxLen == 4
\* largest max_tokens tried
MaxTokens == 4
\* the split loop is cut after this many splits (a loop that does not advance
\* would otherwise append for ever)
MaxSplits == 5

(* Program constants *)

\* find_natural_break(text, window=100): the trailing window, scaled to the
\* model's text lengths
Window == 2
\* api.py: chunk_size = 1000 before the inline binary search
InitialChunkSize == 1000
\* st.number_input(min_value=1000): the smallest max_chunk_size the widget
\* yields.  Scaled so that, as in the program, every one-character slice fits.
MinValue == 3
\* BertTokenizer.encode adds [CLS] and [SEP]
SpecialTokens == 2

\* neither binary search applied yet
NoSearch == [method_called |-> FALSE, optimal_size |-> 0,
             inline_called |-> FALSE, chunk_size |-> 0]

Chars == {"a", " ", "\n", "."}

Texts == UNION {[1..n -> Chars] : n \in 0..MaxLen}

Min(a, b) == IF a < b THEN a ELSE b
Max(a, b) == IF a > b THEN a ELSE b

----------------------------------------------------------------------------
(* Python string primitives *)

\* t[a:b] for 0 <= a, 0 <= b (clamped to len(t))
Slice(t, a, b) == SubSeq(t, Min(a, Len(t)) + 1, Min(b, Len(t)))

\* True iff sep occurs in t at 0-based index i
OccursAt(t, sep, i) ==
    /\ i >= 0
    /\ i + Len(sep) <= Len(t)
    /\ \A j \in 1..Len(sep) : t[i + j] = sep[j]

\* t.rfind(sep): highest index of an occurrence, -1 if none
RFind(t, sep) ==
    LET occ == {i \in 0..Len(t) : OccursAt(t, sep, i)}
    IN  IF occ = {} THEN -1 ELSE CHOOSE i \in occ : \A j \in occ : j <= i

----------------------------------------------------------------------------
(* The tokenizer: len(tokenizer.encode(text)).  BERT's basic tokenizer      *)
(* splits on whitespace and makes every punctuation mark a token of its own;*)
(* a word is looked up in the vocabulary and may break into word pieces.    *)
(*   "word"  : every word is one vocabulary entry (count non-decreasing in  *)
(*             the slice length)                                            *)
(*   "piece" : the two-letter word is not in the vocabulary and breaks into *)
(*             two pieces, every other word is one entry (so a slice can    *)
(*             have more tokens than a longer slice)                        *)

IsLetter(c) == c = "a"

\* word pieces of a word of n letters
Pieces(kind, n) == IF kind = "piece" /\ n = 2 THEN 2 ELSE 1

\* tokens of t[i..] given that `run` letters of a word are pending
RECURSIVE CountFrom(_, _, _, _)
CountFrom(kind, t, i, run) ==
    IF i > Len(t)
    THEN IF run > 0 THEN Pieces(kind, run) ELSE 0
    ELSE IF IsLetter(t[i])
         THEN CountFrom(kind, t, i + 1, run + 1)
         ELSE (IF run > 0 THEN Pieces(kind, run) ELSE 0)
              + (IF t[i] = "." THEN 1 ELSE 0)
              + CountFrom(kind, t, i + 1, 0)

TokenCount(kind, t) == SpecialTokens + CountFrom(kind, t, 1, 0)

Tokenizers == {"word", "piece"}

\* the count is non-decreasing in the slice length, for the slices of t that
\* start at offset p
MonotoneFrom(kind, t, p) ==
    \A a, b \in 0..(Len(t) - p) :
        a <= b => TokenCount(kind, Slice(t, p, p + a)) <= TokenCount(kind, Slice(t, p, p + b))

Monotone(kind, t) == \A p \in 0..Len(t) : MonotoneFrom(kind, t, p)

----------------------------------------------------------------------------
(* StreamlitApp.find_optimal_chunk_size *)

RECURSIVE OptimalSearch(_, _, _, _, _, _)
OptimalSearch(text, tok, maxTok, left, right, optimal_size) ==
    IF left <= right
    THEN LET mid    == (left + right) \div 2
             tokens == TokenCount(tok, Slice(text, 0, mid))
         IN  IF tokens <= maxTok
             THEN OptimalSearch(text, tok, maxTok, mid + 1, right, mid)
             ELSE OptimalSearch(text, tok, maxTok, left, mid - 1, optimal_size)
    ELSE optimal_size

\* a search that accepts one token over the limit
find_optimal_chunk_size_OneOver(text, tok, maxTok) ==
    OptimalSearch(text, tok, maxTok + 1, 0, Len(text), 0)

\* a search whose right end is one short of len(text)
find_optimal_chunk_size_RightExclusive(text, tok, maxTok) ==
    OptimalSearch(text, tok, maxTok, 0, Len(text) - 1, 0)

find_optimal_chunk_size(text, tok, maxTok) ==
    OptimalSearch(text, tok, maxTok, 0, Len(text), 0)

(* StreamlitApp.find_natural_break *)

break_points == << <<"\n", "\n">>, <<"\n">>, <<".", " ">>, <<" ">> >>

RECURSIVE NaturalBreakFrom(_, _, _)
NaturalBreakFrom(text, search_start, s) ==
    IF s > Len(break_points)
    THEN Len(text)
    ELSE LET separator  == break_points[s]
             last_break == RFind(Slice(text, search_start, Len(text)), separator)
         IN  IF last_break # -1
             THEN search_start + last_break + Len(separator)
             ELSE NaturalBreakFrom(text, search_start, s + 1)

find_natural_break(text, window) ==
    NaturalBreakFrom(text, Max(0, Len(text) - window), 1)

----------------------------------------------------------------------------
(* VectorStore (vector_store.py)                                            *)

\* VectorStore.__init__(n_segments=4, n_clusters=32), scaled
n_segments == 2
n_clusters == 2

\* Python's None, as the value of an integer field
None == 0 - 1

\* no approximate_nearest_neighbor call yet
NoQuery == [outcome |-> "none", query |-> <<>>, k |-> 0, result |-> <<>>]

\* no direct call of a quantizer routine yet
NoPQCall == [op |-> "none", outcome |-> "none", n_vectors |-> 0, trained |-> FALSE,
             encoded |-> FALSE, vectors |-> <<>>, result |-> <<>>]

\* no connect call yet
NoConnect == [routine |-> "none", max_retries |-> 0, attempt |-> 0, pc |-> "idle",
              result |-> "none", log |-> <<>>]

\* no store_vectors / search_similar call yet
NoServiceCall == [op |-> "none", result |-> "none", client_called |-> FALSE]

\* no _create_chunks call followed
NoChunking == [text |-> <<>>, chunk_size |-> 0, overlap |-> 0, start |-> 0,
               chunks |-> <<>>, depth |-> 0, pc |-> "idle"]

\* no routine applied to a segment layout
NoLayout == [dim |-> 0, n_segments |-> 0, segment_size |-> None,
             train |-> <<>>, encode |-> <<>>, split |-> <<>>,
             reconstruct |-> [outcome |-> "none", slices |-> <<>>]]

\* the inputs that start a query: "Send" of the chat tab, "Ask" of the
\* document tab, "Send" of a split
QueryInputs == {"chat", "doc", "split"}

\* a session in which no script has run: st.session_state holds no flag
NoSession == [flags |-> [x \in QueryInputs |-> "absent"], pc |-> "idle", input |-> "none",
              pending |-> <<>>, outcome |-> "none", seen |-> "none", started |-> FALSE]

\* no responses file, no monitor call; None stands for no value
NoSaved == [file |-> <<>>, session |-> <<>>, last |-> "none", idx |-> None, before |-> <<>>]
NoMonitor == [max_checks |-> 0, check_count |-> 0, last_status |-> "none", polls |-> 0,
              status_info |-> [fetched |-> FALSE, status |-> "none",
                               latest_operation |-> "none"],
              pc |-> "idle", result |-> "none"]

\* nothing but the routines under study has run
AppIdle ==
    /\ layout = NoLayout
    /\ ui = NoSession
    /\ saved = NoSaved
    /\ mon = NoMonitor

\* QdrantService.__init__, no connect call running, no _create_chunks call
\* followed
ServiceIdle ==
    /\ AppIdle
    /\ ck = NoChunking
    /\ conn = NoConnect
    /\ is_connected = FALSE
    /\ svc_call = NoServiceCall

\* the call record before any process_document call on the instance
NoCall == [outcome |-> "none", failed_at |-> "none", trained |-> FALSE,
           vectors |-> <<>>, points |-> <<>>]

\* VectorStore.__init__: _ensure_collection deletes and re-creates the
\* collection, the fields start empty
VectorStoreInit ==
    /\ chunks = <<>>
    /\ codebooks = <<>>
    /\ pq_codes = <<>>
    /\ segment_size = None
    /\ store = <<>>
    /\ call = NoCall
    /\ embedding_model = <<>>
    /\ ann = NoQuery
    /\ pq_call = NoPQCall

----------------------------------------------------------------------------
(* VectorStore._create_chunks                                               *)

\* _create_chunks(text, chunk_size=256, overlap=64), the fallback's
\* max(128, ...) and overlap=32: scaled by 1/32
DefaultChunkSize == 8
DefaultOverlap == 2
MinChunkSize == 4
FallbackOverlap == 1

\* Python's reading of a slice bound i on a string of length n
PyIndex(i, n) == IF i < 0 THEN Max(0, n + i) ELSE Min(i, n)

\* text[a:b], negative bounds included
PySlice(text, a, b) == SubSeq(text, PyIndex(a, Len(text)) + 1, PyIndex(b, Len(text)))

\* text.rfind(ch, a, b) for a one-character ch
RFindIn(text, ch, a, b) ==
    LET lo  == PyIndex(a, Len(text))
        hi  == PyIndex(b, Len(text))
        occ == {i \in lo..(hi - 1) : text[i + 1] = ch}
    IN  IF occ = {} THEN -1 ELSE CHOOSE i \in occ : \A j \in occ : j <= i

IsSpace(c) == c \in {" ", "\n"}

\* str.strip()
RECURSIVE LStrip(_)
LStrip(t) == IF t # <<>> /\ IsSpace(Head(t)) THEN LStrip(Tail(t)) ELSE t

RECURSIVE RStrip(_)
RStrip(t) ==
    IF t # <<>> /\ IsSpace(t[Len(t)]) THEN RStrip(SubSeq(t, 1, Len(t) - 1)) ELSE t

Strip(t) == RStrip(LStrip(t))

\* the window end chosen for a window starting at start
WindowEnd(text, chunk_size, start) ==
    LET end == start + chunk_size
    IN  IF end < Len(text)
        THEN LET last_period  == RFindIn(text, ".", start, end)
                 last_newline == RFindIn(text, "\n", start, end)
             IN  IF Max(last_period, last_newline) > -1
                 THEN Max(last_period, last_newline)
                 ELSE end
        ELSE end

\* the while loop.  Its control depends on start alone, so a start seen before
\* means the loop repeats for ever ("loop").
RECURSIVE ChunkLoop(_, _, _, _, _, _)
ChunkLoop(text, chunk_size, overlap, start, acc, seen) ==
    IF ~(start < Len(text))
    THEN [status |-> "ok", chunks |-> acc]
    ELSE IF start \in seen
         THEN [status |-> "loop", chunks |-> acc]
         ELSE LET end   == WindowEnd(text, chunk_size, start)
                  chunk == Strip(PySlice(text, start, end))
              IN  ChunkLoop(text, chunk_size, overlap, end - overlap,
                            IF chunk # <<>> THEN Append(acc, chunk) ELSE acc,
                            seen \cup {start})

\* _create_chunks: "ok" with the chunks returned, "loop" when the while loop
\* never ends, "recursion" when the fallback calls itself with the arguments
\* it was called with (Python ends that with RecursionError)
RECURSIVE CreateChunks(_, _, _)
CreateChunks(text, chunk_size, overlap) ==
    LET r == ChunkLoop(text, chunk_size, overlap, 0, <<>>, {})
    IN  IF r.status = "loop"
        THEN r
        ELSE IF Len(r.chunks) < n_clusters
             THEN LET new_chunk_size == Max(MinChunkSize, Len(text) \div (n_clusters + 1))
                  IN  IF new_chunk_size = chunk_size /\ FallbackOverlap = overlap
                      THEN [status |-> "recursion", chunks |-> <<>>]
                      ELSE CreateChunks(text, new_chunk_size, FallbackOverlap)
             ELSE r

_create_chunks(text) == CreateChunks(text, DefaultChunkSize, DefaultOverlap)

----------------------------------------------------------------------------
(* The product quantizer: train_product_quantizer, encode_vectors           *)

\* coordinates of the embedding vectors of the model
Coords == {0, 1}

\* the embedding vectors of dimension d
Vectors(d) == [1..d -> Coords]

RECURSIVE SumOver(_, _)
\* the sum of f[i] over the finite set S of indices
SumOver(f, S) ==
    IF S = {} THEN 0
    ELSE LET i == CHOOSE j \in S : TRUE IN f[i] + SumOver(f, S \ {i})

\* squared Euclidean distance of two points of the same dimension
SqDist(x, y) == SumOver([i \in 1..Len(x) |-> (x[i] - y[i]) * (x[i] - y[i])], 1..Len(x))

\* KMeans.predict for one point: the index (0-based) of the nearest centre,
\* the lowest one when several are nearest (argmin)
Predict(centers, x) ==
    (CHOOSE j \in 1..Len(centers) :
        /\ \A l \in 1..Len(centers) : SqDist(x, centers[j]) <= SqDist(x, centers[l])
        /\ \A l \in 1..(j - 1) : SqDist(x, centers[l]) > SqDist(x, centers[j])) - 1

\* KMeans(n_clusters).fit(X).cluster_centers_: the centre sequences at which
\* Lloyd's iteration rests.  Every centre is the mean of the points nearest to
\* it; a centre is left without points only when X has fewer distinct points
\* than clusters, and is then one of the points.  Which of these the seeded
\* initialisation ends in is not computed: each is an outcome.
KMeansFits(X) ==
    LET d        == Len(X[1])
        rows     == 1..Len(X)
        distinct == {X[i] : i \in rows}
    IN  {c \in [1..n_clusters -> Vectors(d)] :
            \A j \in 1..n_clusters :
                LET mine == {i \in rows : Predict(c, X[i]) = j - 1}
                IN  IF mine = {}
                    THEN Cardinality(distinct) < n_clusters /\ c[j] \in distinct
                    ELSE \A k \in 1..d :
                            Cardinality(mine) * c[j][k] = SumOver([i \in rows |-> X[i][k]], mine)}

\* the index range [start, end) that train_product_quantizer and
\* encode_vectors cut out for segment m (0-based) of a vector of length dim
SegmentStart(m, seg_size) == m * seg_size
SegmentEnd(m, seg_size, dim) ==
    IF m < n_segments - 1 THEN SegmentStart(m, seg_size) + seg_size ELSE dim

\* v[start:end]
SegmentOf(v, m, seg_size) ==
    SubSeq(v, SegmentStart(m, seg_size) + 1, SegmentEnd(m, seg_size, Len(v)))

\* train_product_quantizer(vectors): the states it can leave.  KMeans.fit
\* raises ValueError when it is given fewer samples than clusters; the fields
\* assigned before the first fit (segment_size, codebooks = []) stay assigned.
\* train_product_quantizer fitting whatever number of vectors it is given
train_product_quantizer_AnyCount(vectors) ==
    LET dim      == Len(vectors[1])
        seg_size == dim \div n_segments
        data(m)  == [i \in 1..Len(vectors) |-> SegmentOf(vectors[i], m, seg_size)]
        fits     == [m \in 1..n_segments |-> KMeansFits(data(m - 1))]
    IN  {[raised |-> FALSE, segment_size |-> seg_size, codebooks |-> cbs] :
            cbs \in {c \in [1..n_segments -> UNION {fits[m] : m \in 1..n_segments}] :
                        \A m \in 1..n_segments : c[m] \in fits[m]}}

train_product_quantizer(vectors) ==
    LET dim      == Len(vectors[1])
        seg_size == dim \div n_segments
        data(m)  == [i \in 1..Len(vectors) |-> SegmentOf(vectors[i], m, seg_size)]
    IN  IF Len(vectors) < n_clusters
        THEN {[raised |-> TRUE, segment_size |-> seg_size, codebooks |-> <<>>]}
        ELSE LET fits == [m \in 1..n_segments |-> KMeansFits(data(m - 1))]
             IN  {[raised |-> FALSE, segment_size |-> seg_size, codebooks |-> cbs] :
                     cbs \in {c \in [1..n_segments -> UNION {fits[m] : m \in 1..n_segments}] :
                                 \A m \in 1..n_segments : c[m] \in fits[m]}}

\* encode_vectors(vectors) on the fields cbs and seg_size: codes[i][m] is
\* codebooks[m].predict of segment m of vector i.  It raises when seg_size is
\* None, when a codebook is missing, or when a segment has not the length of
\* the codebook's centres.
EncodeRaises(vectors, cbs, seg_size) ==
    \/ seg_size = None
    \/ Len(cbs) < n_segments
    \/ \E i \in 1..Len(vectors), m \in 1..n_segments :
           Len(SegmentOf(vectors[i], m - 1, seg_size)) # Len(cbs[m][1])

\* encode_vectors numbering the centres from 1
encode_vectors_FromOne(vectors, cbs, seg_size) ==
    [i \in 1..Len(vectors) |->
        [m \in 1..n_segments |-> Predict(cbs[m], SegmentOf(vectors[i], m - 1, seg_size)) + 1]]

encode_vectors(vectors, cbs, seg_size) ==
    [i \in 1..Len(vectors) |->
        [m \in 1..n_segments |-> Predict(cbs[m], SegmentOf(vectors[i], m - 1, seg_size))]]

\* the end of _create_embeddings (after the embeddings are computed): train
\* if self.codebooks is empty, then encode.  The states it can leave.
CreateEmbeddingsTail(vectors, cbs, seg_size) ==
    LET trained == IF cbs = <<>>
                   THEN {[raised |-> r.raised, segment_size |-> r.segment_size,
                          codebooks |-> r.codebooks, trained |-> TRUE] :
                            r \in train_product_quantizer(vectors)}
                   ELSE {[raised |-> FALSE, segment_size |-> seg_size,
                          codebooks |-> cbs, trained |-> FALSE]}
    IN  {IF t.raised \/ EncodeRaises(vectors, t.codebooks, t.segment_size)
         THEN [raised |-> TRUE, segment_size |-> t.segment_size, codebooks |-> t.codebooks,
               trained |-> t.trained, pq_codes |-> <<>>, encoded |-> FALSE]
         ELSE [raised |-> FALSE, segment_size |-> t.segment_size, codebooks |-> t.codebooks,
               trained |-> t.trained,
               pq_codes |-> encode_vectors(vectors, t.codebooks, t.segment_size),
               encoded |-> TRUE] : t \in trained}

----------------------------------------------------------------------------
(* VectorStore.process_document                                             *)

\* BERT's hidden size (768), scaled: the length of every embedding
EmbeddingDim == 2

\* points = [PointStruct(id=i, vector=vector.tolist(), payload={"text": chunk})
\*           for i, (chunk, vector) in enumerate(zip(self.chunks, vectors))]
\* point ids counted from 1 (enumerate(..., 1))
BuildPoints_IdsFromOne(cs, vectors) ==
    [i \in 1..Min(Len(cs), Len(vectors)) |->
        [id |-> i, vector |-> vectors[i], text |-> cs[i]]]

BuildPoints(cs, vectors) ==
    [i \in 1..Min(Len(cs), Len(vectors)) |->
        [id |-> i - 1, vector |-> vectors[i], text |-> cs[i]]]

\* client.upsert(collection_name, points): every point replaces the point of
\* its id or is added; the other points of the collection stay
Upsert(st, points) ==
    LET ids == {points[i].id : i \in 1..Len(points)}
    IN  [id \in (DOMAIN st) \cup ids |->
            IF id \in ids
            THEN LET i == CHOOSE j \in 1..Len(points) :
                              /\ points[j].id = id
                              /\ \A l \in (j + 1)..Len(points) : points[l].id # id
                 IN  [vector |-> points[i].vector, text |-> points[i].text]
            ELSE st[id]]

\* the embeddings list of _create_embeddings: the model's vector of every chunk
Embeddings(model, cs) == [i \in 1..Len(cs) |-> model[cs[i]]]

\* process_document(doc) called in the state cur = [chunks, codebooks,
\* pq_codes, segment_size, store]: the ways it can end.  The embedding model
\* and the Store client are remote or heavy calls that can raise; so can
\* _create_chunks (RecursionError), which can also loop for ever.
\*   outcome "returned" | "raised" | "hung",  failed_at: the step that raised
process_document(doc, cur, model) ==
    LET cleared == [chunks |-> <<>>, codebooks |-> <<>>, pq_codes |-> <<>>,
                    segment_size |-> cur.segment_size, store |-> cur.store,
                    outcome |-> "raised", failed_at |-> "chunking", trained |-> FALSE,
                    vectors |-> <<>>, points |-> <<>>]
        cc      == _create_chunks(doc)
    IN  IF cc.status = "recursion"
        THEN {cleared}
        ELSE IF cc.status = "loop"
        THEN {[cleared EXCEPT !.outcome = "hung"]}
        ELSE LET chunked == [cleared EXCEPT !.chunks = cc.chunks]
             IN  \* the embedding model raises
                 {[chunked EXCEPT !.failed_at = "embedding"]}
                 \cup
                 LET vectors == Embeddings(model, cc.chunks)
                 IN  UNION {
                     LET emb == [chunked EXCEPT !.vectors = vectors,
                                                !.codebooks = t.codebooks,
                                                !.segment_size = t.segment_size,
                                                !.pq_codes = t.pq_codes,
                                                !.trained = t.trained]
                         points == BuildPoints(emb.chunks, vectors)
                     IN  IF t.raised
                         THEN {[emb EXCEPT !.failed_at =
                                              IF t.encoded THEN "encoding" ELSE "training"]}
                         ELSE { \* client.upsert raises
                                [emb EXCEPT !.failed_at = "upsert", !.points = points],
                                \* the call returns self.chunks, vectors
                                [emb EXCEPT !.outcome = "returned", !.failed_at = "none",
                                            !.points = points,
                                            !.store = IF points # <<>>
                                                      THEN Upsert(emb.store, points)
                                                      ELSE emb.store] }
                     : t \in CreateEmbeddingsTail(vectors, chunked.codebooks,
                                                  chunked.segment_size) }

\* the document texts given to process_document: n letters, or letters with
\* one full stop after the first `dot` letters
Letters(n) == [i \in 1..n |-> "a"]
DocLengths == {3, 5, 14}
Documents ==
    {Letters(n) : n \in DocLengths} \cup {Letters(3) \o <<".">> \o Letters(8)}

ProcessDocument ==
    /\ call.outcome # "hung"
    /\ \E doc \in Documents :
         \E r \in process_document(doc, [chunks |-> chunks, codebooks |-> codebooks,
                                         pq_codes |-> pq_codes,
                                         segment_size |-> segment_size, store |-> store],
                                    embedding_model) :
            /\ chunks' = r.chunks
            /\ codebooks' = r.codebooks
            /\ pq_codes' = r.pq_codes
            /\ segment_size' = r.segment_size
            /\ store' = r.store
            /\ call' = [outcome |-> r.outcome, failed_at |-> r.failed_at,
                        trained |-> r.trained, vectors |-> r.vectors, points |-> r.points]
    /\ UNCHANGED <<embedding_model, ann, pq_call>>
    /\ UNCHANGED <<splitVars, svcVars, ckVars, appVars>>

\* st.session_state.vector_store = VectorStore(): a new instance; its
\* _ensure_collection deletes the collection and creates it again
NewVectorStore ==
    /\ call.outcome # "none"
    /\ chunks' = <<>>
    /\ codebooks' = <<>>
    /\ pq_codes' = <<>>
    /\ segment_size' = None
    /\ store' = <<>>
    /\ call' = NoCall
    /\ UNCHANGED <<embedding_model, ann, pq_call>>
    /\ UNCHANGED <<splitVars, svcVars, ckVars, appVars>>

\* the splitter's variables while the VectorStore is modelled
SplitIdle ==
    /\ variant = "method"
    /\ content = <<>>
    /\ max_tokens = 1
    /\ tokenizer = "word"
    /\ current_position = 0
    /\ splits = <<>>
    /\ pc = "done"
    /\ found = NoSearch

\* the chunk texts _create_chunks returns for the documents
ChunkTexts ==
    UNION {LET cc == _create_chunks(doc)
           IN  IF cc.status = "ok" THEN {cc.chunks[i] : i \in 1..Len(cc.chunks)} ELSE {}
           : doc \in Documents}

\* a VectorStore just constructed; the embedding model is some fixed map
\* from texts to vectors of EmbeddingDim coordinates
InitVS ==
    /\ SplitIdle
    /\ chunks = <<>>
    /\ codebooks = <<>>
    /\ pq_codes = <<>>
    /\ segment_size = None
    /\ store = <<>>
    /\ call = NoCall
    /\ ann = NoQuery
    /\ pq_call = NoPQCall
    /\ ServiceIdle
    /\ embedding_model \in [ChunkTexts -> Vectors(EmbeddingDim)]

NextVS == ProcessDocument \/ NewVectorStore

SpecVS == InitVS /\ [][NextVS]_vars

----------------------------------------------------------------------------
(* VectorStore._create_chunks followed step by step: one action per         *)
(* iteration of its while loop, one for the fallback call, one per exit     *)

\* longest text chunked
MaxDoc == 10
\* most chunks a loop collects before it is cut off
MaxChunks == 6
\* the interpreter's recursion limit
RecursionLimit == 3

ChunkChars == {"a", ".", " "}

\* the test in front of the fallback, always passed
EnoughChunks_Always(cs) == TRUE

\* not (len(chunks) < self.n_clusters)
EnoughChunks(cs) == ~(Len(cs) < n_clusters)

\* _create_chunks(text) is entered with the default chunk_size and overlap
InitChunks ==
    /\ SplitIdle
    /\ VectorStoreInit
    /\ AppIdle
    /\ conn = NoConnect
    /\ is_connected = FALSE
    /\ svc_call = NoServiceCall
    /\ \E n \in 0..MaxDoc : \E text \in [1..n -> ChunkChars] :
          ck = [text |-> text, chunk_size |-> DefaultChunkSize, overlap |-> DefaultOverlap,
                start |-> 0, chunks |-> <<>>, depth |-> 0, pc |-> "loop"]

\* one iteration of the while loop
ChunkStep ==
    /\ ck.pc = "loop"
    /\ ck.start < Len(ck.text)
    /\ Len(ck.chunks) < MaxChunks
    /\ LET end   == WindowEnd(ck.text, ck.chunk_size, ck.start)
           chunk == Strip(PySlice(ck.text, ck.start, end))
       IN  ck' = [ck EXCEPT !.chunks = IF chunk # <<>> THEN Append(@, chunk) ELSE @,
                            !.start = end - ck.overlap]
    /\ UNCHANGED <<splitVars, vsVars, svcVars, appVars>>

\* the loop is left with enough chunks: return chunks (through every
\* enclosing fallback call, each of which returns what its callee returned)
ChunkReturn ==
    /\ ck.pc = "loop"
    /\ ~(ck.start < Len(ck.text))
    /\ EnoughChunks(ck.chunks)
    /\ ck' = [ck EXCEPT !.pc = "returned"]
    /\ UNCHANGED <<splitVars, vsVars, svcVars, appVars>>

\* the loop is left with too few chunks: the fallback call
\* self._create_chunks(text, chunk_size=new_chunk_size, overlap=32)
ChunkFallback ==
    /\ ck.pc = "loop"
    /\ ~(ck.start < Len(ck.text))
    /\ ~EnoughChunks(ck.chunks)
    /\ ck.depth < RecursionLimit
    /\ ck' = [ck EXCEPT !.chunk_size = Max(MinChunkSize, Len(ck.text) \div (n_clusters + 1)),
                        !.overlap = FallbackOverlap,
                        !.start = 0,
                        !.chunks = <<>>,
                        !.depth = @ + 1]
    /\ UNCHANGED <<splitVars, vsVars, svcVars, appVars>>

\* the fallback call at the recursion limit: RecursionError
ChunkRecursionError ==
    /\ ck.pc = "loop"
    /\ ~(ck.start < Len(ck.text))
    /\ ~EnoughChunks(ck.chunks)
    /\ ck.depth = RecursionLimit
    /\ ck' = [ck EXCEPT !.pc = "raised"]
    /\ UNCHANGED <<splitVars, vsVars, svcVars, appVars>>

NextChunks == ChunkStep \/ ChunkReturn \/ ChunkFallback \/ ChunkRecursionError

SpecChunks == InitChunks /\ [][NextChunks]_vars

----------------------------------------------------------------------------
(* The index: compute_distance_table, approximate_nearest_neighbor         *)

\* the exact root of a perfect square (the distances of the model's vectors
\* are roots of perfect squares)
Sqrt(n) == CHOOSE r \in 0..n : r * r = n

\* sklearn's euclidean_distances for one pair of points
EuclideanDistance(x, y) == Sqrt(SqDist(x, y))

\* np.array_split(vector, n_segments)[j] (0-based j): the first
\* len % n_segments parts have one element more than the others
ArraySplitSize(len, j) == (len \div n_segments) + (IF j < len % n_segments THEN 1 ELSE 0)
ArraySplitStart(len, j) == SumOver([i \in 0..(n_segments - 1) |-> ArraySplitSize(len, i)], 0..(j - 1))

\* _split_vector
_split_vector(vector) ==
    [m \in 1..n_segments |->
        SubSeq(vector, ArraySplitStart(Len(vector), m - 1) + 1,
               ArraySplitStart(Len(vector), m - 1) + ArraySplitSize(Len(vector), m - 1))]

\* compute_distance_table with a test for a trained quantizer put in front
DistanceTableRaises_Untrained(query, cbs) ==
    \/ Len(cbs) < n_segments
    \/ \E m \in 1..Min(n_segments, Len(cbs)) :
           Len(_split_vector(query)[m]) # Len(cbs[m][1])

\* compute_distance_table comparing the first segment only
DistanceTableRaises_FirstSegment(query, cbs) ==
    \E m \in 1..Min(1, Len(cbs)) :
        Len(_split_vector(query)[m]) # Len(cbs[m][1])

\* compute_distance_table raises (ValueError of euclidean_distances) when a
\* query segment has not the length of the centres of its codebook; zip stops
\* at the shorter of query_segments and codebooks
DistanceTableRaises(query, cbs) ==
    \E m \in 1..Min(n_segments, Len(cbs)) :
        Len(_split_vector(query)[m]) # Len(cbs[m][1])

\* compute_distance_table: rows without a codebook stay at np.zeros
compute_distance_table(query, cbs) ==
    [m \in 1..n_segments |->
        [c \in 1..n_clusters |->
            IF m <= Len(cbs)
            THEN EuclideanDistance(_split_vector(query)[m], cbs[m][c])
            ELSE 0]]

\* distances[i] taken from the first segment's row alone
ApproximateDistances_FirstSegment(distance_table, codes) ==
    [i \in 1..Len(codes) |-> distance_table[1][codes[i][1] + 1]]

\* distances[i] = sum(distance_table[m, c] for m, c in enumerate(code))
ApproximateDistances(distance_table, codes) ==
    [i \in 1..Len(codes) |->
        SumOver([m \in 1..Len(codes[i]) |-> distance_table[m][codes[i][m] + 1]],
                1..Len(codes[i]))]

\* np.argsort(-distances): largest distance first
ArgsortOutcomes_Descending(distances) ==
    LET n == Len(distances)
    IN  {p \in [1..n -> 0..(n - 1)] :
            /\ \A i, j \in 1..n : i # j => p[i] # p[j]
            /\ \A i \in 1..(n - 1) : distances[p[i] + 1] >= distances[p[i + 1] + 1]}

\* np.argsort(distances): default kind 'quicksort' is not a stable sort, so
\* the order of equal distances is one the build chooses.  Every sequence of
\* the (0-based) indices in non-decreasing order of distance is an outcome.
ArgsortOutcomes(distances) ==
    LET n == Len(distances)
    IN  {p \in [1..n -> 0..(n - 1)] :
            /\ \A i, j \in 1..n : i # j => p[i] # p[j]
            /\ \A i \in 1..(n - 1) : distances[p[i] + 1] <= distances[p[i + 1] + 1]}

\* approximate_nearest_neighbor(query, k) for k >= 0: the results it can return
approximate_nearest_neighbor(query, k, cbs, codes) ==
    LET distances == ApproximateDistances(compute_distance_table(query, cbs), codes)
    IN  {[i \in 1..Min(k, Len(distances)) |-> <<nearest_idx[i], distances[nearest_idx[i] + 1]>>] :
            nearest_idx \in ArgsortOutcomes(distances)}

\* the lengths of query vectors: the embedding dimension and a wrong one
QueryDims == {EmbeddingDim - 1, EmbeddingDim}
\* the coordinates of query vectors
QueryCoords == {0, 2}
\* most vectors in one embeddings array
MaxVectors == 3
\* largest k asked for
MaxK == 3

\* what _create_embeddings can leave in a cleared instance: the embeddings of
\* the chunks (any array of at least n_clusters vectors, which is what
\* _create_chunks hands on) train the quantizer and are encoded
IndexOutcomes ==
    UNION {CreateEmbeddingsTail(vectors, <<>>, None) :
            vectors \in UNION {[1..n -> Vectors(EmbeddingDim)] : n \in n_clusters..MaxVectors}}

\* process_document as the index sees it: the fields are cleared, trained
\* and filled
IndexDocument ==
    /\ \E r \in IndexOutcomes :
                /\ ~r.raised
                /\ codebooks' = r.codebooks
                /\ segment_size' = r.segment_size
                /\ pq_codes' = r.pq_codes
    /\ ann' = NoQuery
    /\ pq_call' = NoPQCall
    /\ UNCHANGED <<chunks, store, embedding_model, call>>
    /\ UNCHANGED <<splitVars, svcVars, ckVars, appVars>>

\* a call approximate_nearest_neighbor(query, k)
ApproximateNearestNeighbor ==
    /\ \E len \in QueryDims, k \in 0..MaxK :
         \E query \in [1..len -> QueryCoords] :
            IF DistanceTableRaises(query, codebooks)
            THEN ann' = [outcome |-> "raised", query |-> query, k |-> k, result |-> <<>>]
            ELSE \E res \in approximate_nearest_neighbor(query, k, codebooks, pq_codes) :
                    ann' = [outcome |-> "returned", query |-> query, k |-> k, result |-> res]
    /\ UNCHANGED <<chunks, codebooks, pq_codes, segment_size, store, embedding_model, call, pq_call>>
    /\ UNCHANGED <<splitVars, svcVars, ckVars, appVars>>

InitANN == SplitIdle /\ VectorStoreInit /\ ServiceIdle

NextANN == IndexDocument \/ ApproximateNearestNeighbor

SpecANN == InitANN /\ [][NextANN]_vars

----------------------------------------------------------------------------
(* The quantizer routines and the index called directly on a VectorStore:  *)
(* train_product_quantizer, encode_vectors, _create_embeddings, the         *)
(* reconstruction loop of Save to DB, approximate_nearest_neighbor          *)

\* the dimension of the arrays handed in: every vector the program trains on
\* or encodes is a BERT embedding
TrainDims == {EmbeddingDim}

\* most vectors in one encode_vectors or _create_embeddings call
MaxEncode == 2

\* what train_product_quantizer(vectors) can leave, for arrays of 1 to
\* MaxVectors vectors
TrainOutcomes ==
    UNION {{[raised |-> r.raised, segment_size |-> r.segment_size,
             codebooks |-> r.codebooks, n_vectors |-> Len(vectors)] :
                r \in train_product_quantizer(vectors)} :
           vectors \in UNION {[1..n -> Vectors(d)] : n \in 1..MaxVectors, d \in TrainDims}}

\* a call train_product_quantizer(vectors)
TrainProductQuantizer ==
    /\ \E r \in TrainOutcomes :
        /\ codebooks' = r.codebooks
        /\ segment_size' = r.segment_size
        /\ pq_call' = [NoPQCall EXCEPT !.op = "train_product_quantizer",
                                       !.outcome = IF r.raised THEN "raised" ELSE "returned",
                                       !.n_vectors = r.n_vectors,
                                       !.trained = ~r.raised]
    /\ ann' = NoQuery
    /\ UNCHANGED <<chunks, pq_codes, store, embedding_model, call>>
    /\ UNCHANGED <<splitVars, svcVars, ckVars, appVars>>

\* a call encode_vectors(vectors): it returns the codes and assigns no field
EncodeVectors ==
    /\ \E n \in 1..MaxEncode, d \in TrainDims :
         \E vectors \in [1..n -> Vectors(d)] :
            pq_call' = IF EncodeRaises(vectors, codebooks, segment_size)
                       THEN [NoPQCall EXCEPT !.op = "encode_vectors", !.outcome = "raised",
                                             !.n_vectors = n, !.vectors = vectors]
                       ELSE [NoPQCall EXCEPT !.op = "encode_vectors", !.outcome = "returned",
                                             !.n_vectors = n, !.vectors = vectors,
                                             !.encoded = TRUE,
                                             !.result = encode_vectors(vectors, codebooks, segment_size)]
    /\ ann' = NoQuery
    /\ UNCHANGED <<chunks, codebooks, pq_codes, segment_size, store, embedding_model, call>>
    /\ UNCHANGED <<splitVars, svcVars, ckVars, appVars>>

\* a call _create_embeddings(chunks): the embeddings of the chunks are any
\* array of EmbeddingDim coordinates; the quantizer is trained if it is not,
\* then the array is encoded into self.pq_codes
CreateEmbeddings ==
    /\ \E n \in 1..MaxEncode :
         \E vectors \in [1..n -> Vectors(EmbeddingDim)] :
            \E r \in CreateEmbeddingsTail(vectors, codebooks, segment_size) :
                /\ codebooks' = r.codebooks
                /\ segment_size' = r.segment_size
                /\ pq_codes' = IF r.encoded THEN r.pq_codes ELSE pq_codes
                /\ pq_call' = [NoPQCall EXCEPT !.op = "_create_embeddings",
                                               !.outcome = IF r.raised THEN "raised" ELSE "returned",
                                               !.n_vectors = n,
                                               !.trained = r.trained,
                                               !.encoded = r.encoded]
    /\ ann' = NoQuery
    /\ UNCHANGED <<chunks, store, embedding_model, call>>
    /\ UNCHANGED <<splitVars, svcVars, ckVars, appVars>>

\* vector[start_idx:end_idx] = codebook.cluster_centers_[code] on a vector of
\* EmbeddingDim zeros: numpy broadcasts a centre of one coordinate and raises
\* for any other centre that has not the length of the slice
AssignRaises(centre, start_idx, end_idx) ==
    LET slice_len == Max(0, PyIndex(end_idx, EmbeddingDim) - PyIndex(start_idx, EmbeddingDim))
    IN  Len(centre) # slice_len /\ Len(centre) # 1

\* the reconstruction loop raises when an iteration of its inner loop meets an
\* unset segment_size or an assignment that raises; zip(pq_code, codebooks)
\* stops at the shorter of the two
ReconstructRaises(codes, cbs, seg_size) ==
    \E c \in 1..Len(codes) : \E i \in 1..Min(Len(codes[c]), Len(cbs)) :
        \/ seg_size = None
        \/ AssignRaises(cbs[i][codes[c][i] + 1], (i - 1) * seg_size, (i - 1) * seg_size + seg_size)

\* the vectors the reconstruction loop builds from the PQ codes
ReconstructVectors(codes, cbs, seg_size) ==
    [c \in 1..Len(codes) |->
        [j \in 1..EmbeddingDim |->
            LET hit == {i \in 1..Min(Len(codes[c]), Len(cbs)) :
                            /\ (i - 1) * seg_size < j
                            /\ j <= (i - 1) * seg_size + seg_size}
            IN  IF hit = {} THEN 0
                ELSE LET i      == CHOOSE x \in hit : \A y \in hit : y <= x
                         centre == cbs[i][codes[c][i] + 1]
                     IN  IF Len(centre) = 1 THEN centre[1]
                         ELSE centre[j - (i - 1) * seg_size]]]

\* the reconstruction of Save to DB run on the VectorStore's fields
Reconstruct ==
    /\ pq_call' = IF ReconstructRaises(pq_codes, codebooks, segment_size)
                  THEN [NoPQCall EXCEPT !.op = "reconstruct", !.outcome = "raised"]
                  ELSE [NoPQCall EXCEPT !.op = "reconstruct", !.outcome = "returned",
                                        !.result = ReconstructVectors(pq_codes, codebooks, segment_size)]
    /\ ann' = NoQuery
    /\ UNCHANGED <<chunks, codebooks, pq_codes, segment_size, store, embedding_model, call>>
    /\ UNCHANGED <<splitVars, svcVars, ckVars, appVars>>

\* the lengths of the query vectors handed in
PQQueryDims == {EmbeddingDim - 1, EmbeddingDim, EmbeddingDim + 1}

\* a call approximate_nearest_neighbor(query, k)
QueryIndex ==
    /\ \E len \in PQQueryDims, k \in 0..MaxK :
         \E query \in [1..len -> QueryCoords] :
            IF DistanceTableRaises(query, codebooks)
            THEN ann' = [outcome |-> "raised", query |-> query, k |-> k, result |-> <<>>]
            ELSE \E res \in approximate_nearest_neighbor(query, k, codebooks, pq_codes) :
                    ann' = [outcome |-> "returned", query |-> query, k |-> k, result |-> res]
    /\ pq_call' = NoPQCall
    /\ UNCHANGED <<chunks, codebooks, pq_codes, segment_size, store, embedding_model, call>>
    /\ UNCHANGED <<splitVars, svcVars, ckVars, appVars>>

NextPQ ==
    \/ TrainProductQuantizer
    \/ EncodeVectors
    \/ CreateEmbeddings
    \/ Reconstruct
    \/ QueryIndex

SpecPQ == InitANN /\ [][NextPQ]_vars

----------------------------------------------------------------------------
(* Connecting to the Store: QdrantService.connect (services/               *)
(* qdrant_service.py) and the two connect_to_qdrant functions               *)
(* (app/streamlit_app.py, app.py), followed attempt by attempt; then        *)
(* QdrantService.store_vectors and search_similar                           *)

\* largest max_retries handed in
MaxRetries == 3

Routines == {"QdrantService.connect", "streamlit_app.connect_to_qdrant", "app.connect_to_qdrant"}

\* whether the module of the routine imports time: app.py does (line 19),
\* services/qdrant_service.py and app/streamlit_app.py do not
TimeImported(routine) == routine = "app.connect_to_qdrant"

\* the attempts of a call, made so far
Attempts(log) == Cardinality({i \in 1..Len(log) : log[i] \in {"ok", "fail"}})

NoCallRunning == conn.pc \in {"idle", "returned", "raised"}

\* a call routine(max_retries): the for loop is entered; range(max_retries)
\* is empty for max_retries = 0, and then connect returns False and
\* connect_to_qdrant falls off its end, returning None.
\* streamlit_app.connect_to_qdrant raises ValueError before the loop when
\* QDRANT_HOST is not set.
ConnectCall ==
    /\ NoCallRunning
    /\ \E routine \in Routines, n \in 0..MaxRetries, host_set \in BOOLEAN :
         conn' = IF routine = "streamlit_app.connect_to_qdrant" /\ ~host_set
                 THEN [routine |-> routine, max_retries |-> n, attempt |-> 0,
                       pc |-> "raised", result |-> "ValueError", log |-> <<>>]
                 ELSE IF n = 0
                 THEN [routine |-> routine, max_retries |-> n, attempt |-> 0,
                       pc |-> "returned",
                       result |-> IF routine = "QdrantService.connect" THEN "False" ELSE "None",
                       log |-> <<>>]
                 ELSE [routine |-> routine, max_retries |-> n, attempt |-> 0,
                       pc |-> "try", result |-> "none", log |-> <<>>]
    /\ svc_call' = NoServiceCall
    /\ UNCHANGED is_connected
    /\ UNCHANGED <<splitVars, vsVars, ckVars, appVars>>

\* the try body succeeds: QdrantClient(...) and get_collections() return
AttemptSucceeds ==
    /\ conn.pc = "try"
    /\ conn' = [conn EXCEPT !.pc = "returned",
                            !.result = IF conn.routine = "QdrantService.connect"
                                       THEN "True" ELSE "client",
                            !.log = Append(@, "ok")]
    /\ is_connected' = IF conn.routine = "QdrantService.connect" THEN TRUE ELSE is_connected
    /\ UNCHANGED svc_call
    /\ UNCHANGED <<splitVars, vsVars, ckVars, appVars>>

\* the try body raises: control is in the except clause
AttemptFails ==
    /\ conn.pc = "try"
    /\ conn' = [conn EXCEPT !.pc = "except", !.log = Append(@, "fail")]
    /\ UNCHANGED <<is_connected, svc_call>>
    /\ UNCHANGED <<splitVars, vsVars, ckVars, appVars>>

\* except clause, attempt < max_retries - 1: time.sleep(retry_delay), then the
\* next iteration.  Where time is not imported the call raises NameError,
\* which leaves the routine.
Retry ==
    /\ conn.pc = "except"
    /\ conn.attempt < conn.max_retries - 1
    /\ conn' = IF TimeImported(conn.routine)
               THEN [conn EXCEPT !.pc = "try", !.attempt = @ + 1, !.log = Append(@, "sleep")]
               ELSE [conn EXCEPT !.pc = "raised", !.result = "NameError"]
    /\ UNCHANGED <<is_connected, svc_call>>
    /\ UNCHANGED <<splitVars, vsVars, ckVars, appVars>>

\* except clause, last attempt: connect sets is_connected = False and returns
\* False, connect_to_qdrant re-raises
GiveUp ==
    /\ conn.pc = "except"
    /\ ~(conn.attempt < conn.max_retries - 1)
    /\ conn' = IF conn.routine = "QdrantService.connect"
               THEN [conn EXCEPT !.pc = "returned", !.result = "False"]
               ELSE [conn EXCEPT !.pc = "raised", !.result = "ConnectionError"]
    /\ is_connected' = IF conn.routine = "QdrantService.connect" THEN FALSE ELSE is_connected
    /\ UNCHANGED svc_call
    /\ UNCHANGED <<splitVars, vsVars, ckVars, appVars>>

\* QdrantService.store_vectors: False without a client call when not
\* connected; otherwise True, or False when a client call raises
StoreVectors ==
    /\ NoCallRunning
    /\ \E client_raises \in BOOLEAN :
         svc_call' = IF ~is_connected
                     THEN [op |-> "store_vectors", result |-> "False", client_called |-> FALSE]
                     ELSE [op |-> "store_vectors",
                           result |-> IF client_raises THEN "False" ELSE "True",
                           client_called |-> TRUE]
    /\ UNCHANGED <<conn, is_connected>>
    /\ UNCHANGED <<splitVars, vsVars, ckVars, appVars>>

\* QdrantService.search_similar: [] without a client call when not
\* connected; otherwise the results, or [] when client.search raises
SearchSimilar ==
    /\ NoCallRunning
    /\ \E client_raises \in BOOLEAN :
         svc_call' = IF ~is_connected
                     THEN [op |-> "search_similar", result |-> "[]", client_called |-> FALSE]
                     ELSE [op |-> "search_similar",
                           result |-> IF client_raises THEN "[]" ELSE "results",
                           client_called |-> TRUE]
    /\ UNCHANGED <<conn, is_connected>>
    /\ UNCHANGED <<splitVars, vsVars, ckVars, appVars>>

InitConn == SplitIdle /\ VectorStoreInit /\ ServiceIdle

NextConn ==
    \/ ConnectCall
    \/ AttemptSucceeds
    \/ AttemptFails
    \/ Retry
    \/ GiveUp
    \/ StoreVectors
    \/ SearchSimilar

SpecConn == InitConn /\ [][NextConn]_vars

----------------------------------------------------------------------------
(* One iteration of the while-loop of StreamlitApp.create_document_splits.  *)
(* The split's section_title, token_density and timestamp are display       *)
(* metadata computed from current_chunk and are left out of the record.     *)

\* a loop that advances by chunk_size although it emitted content[..chunk_end]
MethodSplit_AdvanceByChunkSize(doc, pos, tok, maxTok) ==
    LET chunk_size     == find_optimal_chunk_size(Slice(doc, pos, Len(doc)), tok, maxTok)
        chunk_end      == find_natural_break(Slice(doc, pos, pos + chunk_size), Window)
        current_chunk  == Slice(doc, pos, pos + chunk_end)
        current_tokens == TokenCount(tok, current_chunk)
    IN  [start |-> pos, end |-> pos + chunk_size,
         tokens |-> current_tokens, content |-> current_chunk]

MethodSplit(doc, pos, tok, maxTok) ==
    LET chunk_size     == find_optimal_chunk_size(Slice(doc, pos, Len(doc)), tok, maxTok)
        chunk_end      == find_natural_break(Slice(doc, pos, pos + chunk_size), Window)
        current_chunk  == Slice(doc, pos, pos + chunk_end)
        current_tokens == TokenCount(tok, current_chunk)
    IN  [start |-> pos, end |-> pos + chunk_end,
         tokens |-> current_tokens, content |-> current_chunk]

CreateDocumentSplitsStep ==
    /\ variant = "method"
    /\ pc = "loop"
    /\ current_position < Len(content)
    /\ Len(splits) < MaxSplits
    /\ LET sp == MethodSplit(content, current_position, tokenizer, max_tokens)
       IN  /\ splits' = Append(splits, sp)
           /\ current_position' = sp.end
    /\ UNCHANGED <<variant, content, max_tokens, tokenizer, pc>>
    /\ UNCHANGED <<found, vsVars, svcVars, ckVars, appVars>>

CreateDocumentSplitsReturn ==
    /\ variant = "method"
    /\ pc = "loop"
    /\ ~(current_position < Len(content))
    /\ pc' = "done"
    /\ UNCHANGED <<variant, content, max_tokens, tokenizer, current_position, splits>>
    /\ UNCHANGED <<found, vsVars, svcVars, ckVars, appVars>>

----------------------------------------------------------------------------
(* One iteration of the outer while-loop of render_token_analysis (api.py) *)

\* the inner "Binary search for optimal chunk size"
RECURSIVE InlineSearch(_, _, _, _, _, _, _)
InlineSearch(doc, pos, tok, maxTok, min_size, max_size, st) ==
    IF min_size < max_size
    THEN LET mid_size   == (min_size + max_size + 1) \div 2
             test_chunk == Slice(doc, pos, pos + mid_size)
             tokens     == TokenCount(tok, test_chunk)
         IN  IF tokens <= maxTok
             THEN InlineSearch(doc, pos, tok, maxTok, mid_size, max_size,
                               [chunk_size |-> mid_size, current_chunk |-> test_chunk,
                                current_tokens |-> tokens])
             ELSE InlineSearch(doc, pos, tok, maxTok, min_size, mid_size - 1, st)
    ELSE st

\* the inner "Find natural break point": the first separator of break_chars
\* that occurs in current_chunk cuts it after its last occurrence
RECURSIVE InlineBreak(_, _, _, _, _)
InlineBreak(doc, pos, tok, st, s) ==
    IF s > Len(break_points)
    THEN st
    ELSE LET break_char    == break_points[s]
             natural_break == RFind(st.current_chunk, break_char)
         IN  IF natural_break # -1
             THEN LET size == natural_break + Len(break_char)
                      chk  == Slice(doc, pos, pos + size)
                  IN  [chunk_size |-> size, current_chunk |-> chk,
                       current_tokens |-> TokenCount(tok, chk)]
             ELSE InlineBreak(doc, pos, tok, st, s + 1)

InlineSplit(doc, pos, tok, maxTok) ==
    LET first  == Slice(doc, pos, pos + InitialChunkSize)
        st0    == [chunk_size |-> InitialChunkSize, current_chunk |-> first,
                   current_tokens |-> TokenCount(tok, first)]
        st1    == InlineSearch(doc, pos, tok, maxTok, 0, Len(doc) - pos, st0)
        st2    == IF pos + st1.chunk_size < Len(doc)
                  THEN InlineBreak(doc, pos, tok, st1, 1)
                  ELSE st1
    IN  [start |-> pos, end |-> pos + st2.chunk_size,
         tokens |-> st2.current_tokens, content |-> st2.current_chunk]

RenderTokenAnalysisStep ==
    /\ variant = "inline"
    /\ pc = "loop"
    /\ current_position < Len(content)
    /\ Len(splits) < MaxSplits
    /\ LET sp == InlineSplit(content, current_position, tokenizer, max_tokens)
       IN  /\ splits' = Append(splits, sp)
           /\ current_position' = sp.end
    /\ UNCHANGED <<variant, content, max_tokens, tokenizer, pc>>
    /\ UNCHANGED <<found, vsVars, svcVars, ckVars, appVars>>

RenderTokenAnalysisReturn ==
    /\ variant = "inline"
    /\ pc = "loop"
    /\ ~(current_position < Len(content))
    /\ pc' = "done"
    /\ UNCHANGED <<variant, content, max_tokens, tokenizer, current_position, splits>>
    /\ UNCHANGED <<found, vsVars, svcVars, ckVars, appVars>>

----------------------------------------------------------------------------
(* SpecSplit: a run of the splitter on one text.  create_document_splits    *)
(* takes content, tokenizer and max_tokens as parameters (max_tokens >= 1); *)
(* the inline loop reads max_chunk_size from the number_input widget, which *)
(* yields no value below its min_value.                                     *)

InitSplit ==
    /\ variant \in {"method", "inline"}
    /\ content \in Texts
    /\ tokenizer \in Tokenizers
    /\ max_tokens \in (IF variant = "method" THEN 1 ELSE MinValue)..MaxTokens
    /\ current_position = 0
    /\ splits = <<>>
    /\ pc = "loop"
    /\ found = NoSearch
    /\ VectorStoreInit
    /\ ServiceIdle

NextSplit ==
    \/ CreateDocumentSplitsStep
    \/ CreateDocumentSplitsReturn
    \/ RenderTokenAnalysisStep
    \/ RenderTokenAnalysisReturn

SpecSplit == InitSplit /\ [][NextSplit]_vars

----------------------------------------------------------------------------
(* SpecSearch: the two binary searches applied to the rest of a text at any *)
(* offset, for any tokenizer and any max_tokens >= 1                        *)

InitSearch ==
    /\ variant = "method"
    /\ content \in Texts
    /\ tokenizer \in Tokenizers
    /\ max_tokens \in 1..MaxTokens
    /\ current_position \in 0..Len(content)
    /\ splits = <<>>
    /\ pc = "done"
    /\ found = NoSearch
    /\ VectorStoreInit
    /\ ServiceIdle

\* find_optimal_chunk_size(content[current_position:], tokenizer, max_tokens)
FindOptimalChunkSize ==
    /\ found' = [found EXCEPT !.method_called = TRUE,
                              !.optimal_size = find_optimal_chunk_size(
                                  Slice(content, current_position, Len(content)),
                                  tokenizer, max_tokens)]
    /\ UNCHANGED <<variant, content, max_tokens, tokenizer, current_position, splits, pc>>
    /\ UNCHANGED <<vsVars, svcVars, ckVars, appVars>>

\* the inline binary search of render_token_analysis at current_position,
\* entered with chunk_size = 1000
InlineBinarySearch ==
    /\ LET first == Slice(content, current_position, current_position + InitialChunkSize)
           st    == InlineSearch(content, current_position, tokenizer, max_tokens,
                                 0, Len(content) - current_position,
                                 [chunk_size |-> InitialChunkSize, current_chunk |-> first,
                                  current_tokens |-> TokenCount(tokenizer, first)])
       IN  found' = [found EXCEPT !.inline_called = TRUE, !.chunk_size = st.chunk_size]
    /\ UNCHANGED <<variant, content, max_tokens, tokenizer, current_position, splits, pc>>
    /\ UNCHANGED <<vsVars, svcVars, ckVars, appVars>>

NextSearch == FindOptimalChunkSize \/ InlineBinarySearch

SpecSearch == InitSearch /\ [][NextSearch]_vars

----------------------------------------------------------------------------
(* Claims about the token-bounded splitter (checked under SpecSplit) *)

RECURSIVE ConcatContents(_)
ConcatContents(ss) ==
    IF ss = <<>> THEN <<>> ELSE Head(ss).content \o ConcatContents(Tail(ss))

\* no non-empty prefix of doc[pos:] fits within maxTok
NoPrefixFits(doc, pos, tok, maxTok) ==
    \A n \in 1..(Len(doc) - pos) : TokenCount(tok, Slice(doc, pos, pos + n)) > maxTok

\* the whole of doc[pos:] fits within maxTok
RemainderFits(doc, pos, tok, maxTok) ==
    TokenCount(tok, Slice(doc, pos, Len(doc))) <= maxTok

\* C1: when the splitter returns, its splits exactly partition [0, len(text)):
\* the first starts at 0, each ends where the next starts, the last ends at
\* len(text), each holds the text between its offsets, and the contents
\* concatenated in order are the text.
C1_SplitsPartitionText ==
    pc = "done" =>
        /\ (Len(content) > 0 =>
                /\ Len(splits) > 0
                /\ splits[1].start = 0
                /\ splits[Len(splits)].end = Len(content))
        /\ (Len(content) = 0 => splits = <<>>)
        /\ \A i \in 1..(Len(splits) - 1) : splits[i].end = splits[i + 1].start
        /\ \A i \in 1..Len(splits) :
                /\ splits[i].start < splits[i].end
                /\ splits[i].content = Slice(content, splits[i].start, splits[i].end)
        /\ ConcatContents(splits) = content

\* C1 witness: a finished run that cut the text into several splits, one of
\* them ended at a natural break
C1_Witness ==
    /\ pc = "done"
    /\ Len(splits) >= 3
    /\ \E i \in 1..Len(splits) :
           splits[i].end - splits[i].start
               < find_optimal_chunk_size(Slice(content, splits[i].start, Len(content)),
                                         tokenizer, max_tokens)

\* C2: with a tokenizer whose count is non-decreasing in the slice length,
\* every split's recorded token count is at most max_tokens, unless the split
\* was made where no non-empty prefix of the remaining text fits.
C2_TokenBound ==
    Monotone(tokenizer, content) =>
        \A i \in 1..Len(splits) :
            \/ splits[i].tokens <= max_tokens
            \/ NoPrefixFits(content, splits[i].start, tokenizer, max_tokens)

\* C2 witness: a monotone tokenizer, a split that fills the bound exactly and
\* a later split, while more text than the bound allows was left at its start
C2_Witness ==
    /\ Monotone(tokenizer, content)
    /\ Len(splits) >= 2
    /\ splits[1].tokens = max_tokens
    /\ ~RemainderFits(content, 0, tokenizer, max_tokens)
    /\ ~NoPrefixFits(content, 0, tokenizer, max_tokens)

\* C3: every iteration of the split loop appends one non-empty split and moves
\* the current offset forward by at least one character.
C3_EveryIterationAdvances ==
    [][splits' # splits =>
          /\ Len(splits') = Len(splits) + 1
          /\ Len(splits'[Len(splits')].content) >= 1
          /\ current_position' >= current_position + 1]_vars

\* C4: with a monotone tokenizer, a split made where the whole remaining text
\* fits within max_tokens is the whole remaining text (so it is the last one).
C4_FittingRemainderIsOneSplit ==
    Monotone(tokenizer, content) =>
        \A i \in 1..Len(splits) :
            RemainderFits(content, splits[i].start, tokenizer, max_tokens) =>
                /\ splits[i].end = Len(content)
                /\ i = Len(splits)

----------------------------------------------------------------------------
(* Claims about VectorStore.process_document (checked under SpecVS) *)

\* code is a PQ code of vector v under the codebooks cbs: per segment the
\* (0-based) index of a centre nearest to v's segment
IsCodeOf(code, v, cbs, seg_size) ==
    /\ Len(code) = n_segments
    /\ Len(cbs) = n_segments
    /\ \A m \in 1..n_segments :
          /\ code[m] \in 0..(n_clusters - 1)
          /\ \A l \in 1..n_clusters :
                SqDist(SegmentOf(v, m - 1, seg_size), cbs[m][code[m] + 1])
                    <= SqDist(SegmentOf(v, m - 1, seg_size), cbs[m][l])

\* C5: after every process_document call that returned, chunks, pq_codes and
\* the points written to the Store have the same length and agree position by
\* position: point i-1 of the batch and of the collection carries chunk i's
\* text and chunk i's embedding, and pq_codes[i] is a code of that embedding.
C5_ChunksCodesPointsAligned ==
    call.outcome = "returned" =>
        /\ Len(chunks) >= 1
        /\ Len(pq_codes) = Len(chunks)
        /\ Len(call.points) = Len(chunks)
        /\ Len(call.vectors) = Len(chunks)
        /\ \A i \in 1..Len(chunks) :
              /\ call.vectors[i] = embedding_model[chunks[i]]
              /\ call.points[i] = [id |-> i - 1, vector |-> call.vectors[i], text |-> chunks[i]]
              /\ (i - 1) \in DOMAIN store
              /\ store[i - 1] = [vector |-> call.vectors[i], text |-> chunks[i]]
              /\ IsCodeOf(pq_codes[i], call.vectors[i], codebooks, segment_size)

\* C5 witness: a call returned for a document of three chunks whose
\* embeddings and codes are not all the same
C5_Witness ==
    /\ call.outcome = "returned"
    /\ Len(chunks) = 3
    /\ DOMAIN store = 0..2
    /\ \E i, j \in 1..3 : call.vectors[i] # call.vectors[j] /\ pq_codes[i] # pq_codes[j]

\* C6: a process_document call that raises leaves chunks, codebooks, pq_codes
\* and the Store's points as they were before the call (the new document is
\* not complete, so the old state is the only whole one).
C6_FailureLeavesNoPartialState ==
    [][call'.outcome = "raised" =>
          /\ chunks' = chunks
          /\ codebooks' = codebooks
          /\ pq_codes' = pq_codes
          /\ store' = store]_vars

\* C7: after a process_document call that returned, the Store collection
\* holds exactly the points of the document just processed: ids
\* 0..len(chunks)-1 with the chunks' texts, and no other point.
C7_StoreHoldsExactlyTheDocument ==
    call.outcome = "returned" =>
        /\ DOMAIN store = 0..(Len(chunks) - 1)
        /\ \A i \in 1..Len(chunks) : store[i - 1].text = chunks[i]

\* C8: a process_document call on an instance whose quantizer is trained
\* does not train again: the codebooks after it are the codebooks before it.
C8_TrainedQuantizerIsReused ==
    [][(codebooks # <<>> /\ call.outcome = "returned" /\ call'.outcome = "returned") =>
          /\ codebooks' = codebooks
          /\ ~call'.trained]_vars

----------------------------------------------------------------------------
(* Claims about approximate_nearest_neighbor                                *)

\* the approximate distances of the stored codes to the last query
QueryDistances == ApproximateDistances(compute_distance_table(ann.query, codebooks), pq_codes)

\* C9: a call approximate_nearest_neighbor(query, k) with a query of the
\* embedding dimension returns; what it returns are min(k, index size) pairs
\* (index, distance) of distinct valid indices, each with the approximate
\* distance of its code, in non-decreasing order of distance, and no code
\* left out is nearer than a code returned.
C9_NearestSortedByDistance ==
    /\ (ann.outcome = "raised" => Len(ann.query) # EmbeddingDim)
    /\ (ann.outcome = "returned" =>
          LET res == ann.result
          IN  /\ Len(res) = Min(ann.k, Len(pq_codes))
              /\ \A i \in 1..Len(res) :
                    /\ res[i][1] \in 0..(Len(pq_codes) - 1)
                    /\ res[i][2] = QueryDistances[res[i][1] + 1]
              /\ \A i, j \in 1..Len(res) : i # j => res[i][1] # res[j][1]
              /\ \A i \in 1..(Len(res) - 1) : res[i][2] <= res[i + 1][2]
              /\ \A i \in 1..Len(res), o \in 1..Len(pq_codes) :
                    (\A j \in 1..Len(res) : res[j][1] # o - 1) => res[i][2] <= QueryDistances[o])

\* C9's case: three stored codes, k = 2, and the two results at different
\* distances, the third code farther still
C9_Witness ==
    /\ ann.outcome = "returned"
    /\ Len(pq_codes) = 3
    /\ ann.k = 2
    /\ Len(ann.result) = 2
    /\ ann.result[1][2] < ann.result[2][2]
    /\ \E o \in 1..3 : QueryDistances[o] > ann.result[2][2]

\* C10: among results of equal distance the lower index comes first, and of
\* two codes of equal distance the one of lower index is returned before the
\* other is.
C10_TiesLowerIndexFirst ==
    ann.outcome = "returned" =>
        LET res == ann.result
        IN  /\ \A i \in 1..(Len(res) - 1) :
                  res[i][2] = res[i + 1][2] => res[i][1] < res[i + 1][1]
            /\ \A i \in 1..Len(res), o \in 1..Len(pq_codes) :
                  (QueryDistances[o] = res[i][2] /\ o - 1 < res[i][1])
                      => \E j \in 1..Len(res) : res[j][1] = o - 1

----------------------------------------------------------------------------
(* Claims about the quantizer and the index called directly (SpecPQ)       *)

\* the dimension the codebooks were trained on: the lengths of the centres
\* of the segments, added up
TrainedDim(cbs) == SumOver([m \in 1..Len(cbs) |-> Len(cbs[m][1])], 1..Len(cbs))

\* C11 as stated: with no stored PQ codes, approximate_nearest_neighbor
\* returns the empty sequence and raises nothing, whatever the query vector
\* and k are.
C11_EmptyIndexAnyQuery ==
    (ann.outcome # "none" /\ pq_codes = <<>>) =>
        (ann.outcome = "returned" /\ ann.result = <<>>)

\* C11, amended: with no stored PQ codes, approximate_nearest_neighbor
\* returns the empty sequence and raises nothing for every k and every query
\* vector, except a query whose length is not the dimension of codebooks
\* that are trained (that call raises, as a query of a wrong dimension does
\* on a filled index).
C11_EmptyIndexReturnsEmpty ==
    (/\ ann.outcome # "none"
     /\ pq_codes = <<>>
     /\ (codebooks = <<>> \/ Len(ann.query) = TrainedDim(codebooks))) =>
        (ann.outcome = "returned" /\ ann.result = <<>>)

\* C11's case: a query with k > 0 answered on trained codebooks without
\* stored codes
C11_Witness ==
    /\ ann.outcome = "returned"
    /\ pq_codes = <<>>
    /\ codebooks # <<>>
    /\ ann.k > 0
    /\ ann.result = <<>>

\* C12: on trained codebooks a query whose length is not the training
\* dimension raises, whatever the length is, and the call leaves the
\* codebooks and the stored codes as they were.
C12_WrongDimensionFails ==
    [][(/\ ann' # ann
        /\ ann'.outcome # "none"
        /\ codebooks # <<>>
        /\ Len(ann'.query) # TrainedDim(codebooks)) =>
            (/\ ann'.outcome = "raised"
             /\ codebooks' = codebooks
             /\ pq_codes' = pq_codes
             /\ segment_size' = segment_size)]_vars

\* C12's case: a query shorter than the training dimension raised on a
\* trained and filled index
C12_Witness ==
    /\ ann.outcome = "raised"
    /\ codebooks # <<>>
    /\ pq_codes # <<>>
    /\ Len(ann.query) < TrainedDim(codebooks)

\* C13: encode_vectors on trained codebooks returns, for vectors of the
\* training dimension, one code per input vector in input order; every code
\* has n_segments entries, each an index 0 <= c < n_clusters, and code i is
\* the code of vector i (per segment the index of a nearest centre).
C13_CodesWellFormed ==
    pq_call.op = "encode_vectors" =>
        /\ (codebooks # <<>> /\ Len(pq_call.vectors[1]) = TrainedDim(codebooks))
                => pq_call.outcome = "returned"
        /\ pq_call.outcome = "returned" =>
              /\ Len(pq_call.result) = Len(pq_call.vectors)
              /\ \A i \in 1..Len(pq_call.result) :
                    /\ Len(pq_call.result[i]) = n_segments
                    /\ \A m \in 1..n_segments : pq_call.result[i][m] \in 0..(n_clusters - 1)
                    /\ IsCodeOf(pq_call.result[i], pq_call.vectors[i], codebooks, segment_size)

\* C13's case: two different vectors encoded to two different codes
C13_Witness ==
    /\ pq_call.op = "encode_vectors"
    /\ pq_call.outcome = "returned"
    /\ Len(pq_call.result) = 2
    /\ pq_call.vectors[1] # pq_call.vectors[2]
    /\ pq_call.result[1] # pq_call.result[2]

\* C14: encode_vectors and the reconstruction loop, run on a VectorStore
\* without codebooks, fail instead of returning codes or vectors.
C14_UntrainedCallsFail ==
    (pq_call.op \in {"encode_vectors", "reconstruct"} /\ codebooks = <<>>) =>
        pq_call.outcome = "raised"

\* C15: train_product_quantizer given fewer vectors than n_clusters raises
\* and leaves no codebooks, and a _create_embeddings pass in which it does so
\* raises too and runs no encode step.
C15_TooFewVectorsFail ==
    /\ (pq_call.op = "train_product_quantizer" /\ pq_call.n_vectors < n_clusters) =>
          (pq_call.outcome = "raised" /\ codebooks = <<>>)
    /\ (pq_call.op = "_create_embeddings" /\ pq_call.trained /\ pq_call.n_vectors < n_clusters) =>
          (pq_call.outcome = "raised" /\ codebooks = <<>> /\ ~pq_call.encoded)

\* C15's case: a _create_embeddings pass on one chunk that called
\* train_product_quantizer and raised
C15_Witness ==
    /\ pq_call.op = "_create_embeddings"
    /\ pq_call.trained
    /\ pq_call.n_vectors < n_clusters
    /\ pq_call.outcome = "raised"

----------------------------------------------------------------------------
(* Claims about _create_chunks (SpecChunks)                                 *)

\* C16: whenever _create_chunks returns, the list it returns holds at least
\* n_clusters chunks and none of them is empty.
C16_ReturnsEnoughChunks ==
    ck.pc = "returned" =>
        /\ Len(ck.chunks) >= n_clusters
        /\ \A i \in 1..Len(ck.chunks) : ck.chunks[i] # <<>>

\* C16's case: the first pass found too few chunks and the fallback call
\* returned enough
C16_Witness ==
    /\ ck.pc = "returned"
    /\ ck.depth = 1
    /\ Len(ck.chunks) >= n_clusters

\* C17: within one invocation every iteration of the while loop moves the
\* window start forward, and no fallback call repeats the chunk_size and
\* overlap of the call that makes it (a call that does recurses for ever).
C17_ChunkingTerminates ==
    [][/\ (ck.pc = "loop" /\ ck'.pc = "loop" /\ ck'.depth = ck.depth /\ ck' # ck)
            => ck'.start > ck.start
       /\ (ck'.depth = ck.depth + 1)
            => <<ck'.chunk_size, ck'.overlap>> # <<ck.chunk_size, ck.overlap>>]_vars

----------------------------------------------------------------------------
(* Claims about connecting to the Store (SpecConn)                          *)

\* C18: a connect call with max_retries = n makes at most n attempts and none
\* after a successful one, and a failed attempt i < n is followed, after a
\* wait of retry_delay, by attempt i + 1.
C18_BoundedRetriesWithBackoff ==
    [][/\ Attempts(conn'.log) <= conn'.max_retries
       /\ \A i \in 1..(Len(conn'.log) - 1) : conn'.log[i] # "ok"
       /\ (conn.pc = "except" /\ conn.attempt < conn.max_retries - 1 /\ conn' # conn) =>
             (/\ conn'.pc = "try"
              /\ conn'.attempt = conn.attempt + 1
              /\ conn'.log = Append(conn.log, "sleep"))]_vars

\* C19: QdrantService.connect ends by returning, never by raising; it returns
\* True exactly when an attempt succeeded, and is_connected is then True;
\* when it returns False is_connected is False; store_vectors and
\* search_similar on a service that is not connected return False and []
\* without calling the client.
C19_ConnectReportsOutcome ==
    /\ (conn.routine = "QdrantService.connect" /\ NoCallRunning) =>
          /\ conn.pc = "returned"
          /\ (conn.result = "True") = (\E i \in 1..Len(conn.log) : conn.log[i] = "ok")
          /\ (conn.result = "True") => is_connected
          /\ (conn.result = "False" /\ conn.max_retries > 0) => ~is_connected
    /\ (svc_call.op # "none" /\ ~is_connected) =>
          (~svc_call.client_called /\ svc_call.result \in {"False", "[]"})

----------------------------------------------------------------------------
(* Claims about the binary searches (SpecSearch)                            *)

\* the slice of n characters at the current offset fits within max_tokens
Fits(n) ==
    TokenCount(tokenizer, Slice(content, current_position, current_position + n)) <= max_tokens

\* L is the largest length in [0, len(text)] whose slice fits, or 0 when no
\* length fits
LargestFit(L) ==
    LET rem  == Len(content) - current_position
        fits == {n \in 0..rem : Fits(n)}
    IN  IF fits = {} THEN L = 0
        ELSE L \in fits /\ \A n \in fits : n <= L

\* C20: for a tokenizer whose count is non-decreasing in the slice length,
\* find_optimal_chunk_size returns the largest length whose prefix fits within
\* max_tokens (0 when none fits), and the inline binary search settles on
\* the same length whenever a non-empty prefix fits.
C20_BinarySearchFindsLargestFit ==
    MonotoneFrom(tokenizer, content, current_position) =>
        /\ found.method_called => LargestFit(found.optimal_size)
        /\ (found.inline_called /\ \E n \in 1..(Len(content) - current_position) : Fits(n)) =>
              /\ LargestFit(found.chunk_size)
              /\ found.chunk_size = find_optimal_chunk_size(
                     Slice(content, current_position, Len(content)), tokenizer, max_tokens)

\* C20's case: both searches applied at an offset behind the start, a
\* non-empty prefix fits and the whole rest does not
C20_Witness ==
    /\ MonotoneFrom(tokenizer, content, current_position)
    /\ found.method_called
    /\ found.inline_called
    /\ current_position > 0
    /\ found.optimal_size >= 1
    /\ found.optimal_size < Len(content) - current_position
    /\ found.chunk_size = found.optimal_size

----------------------------------------------------------------------------
(* Claims about the natural-break step (checked under SpecSplit) *)

\* the chunk the binary search of the variant hands to the natural-break step
\* at offset pos
CandidateChunk(v, doc, pos, tok, maxTok) ==
    IF v = "method"
    THEN Slice(doc, pos, pos + find_optimal_chunk_size(Slice(doc, pos, Len(doc)), tok, maxTok))
    ELSE LET first == Slice(doc, pos, pos + InitialChunkSize)
         IN  InlineSearch(doc, pos, tok, maxTok, 0, Len(doc) - pos,
                          [chunk_size |-> InitialChunkSize, current_chunk |-> first,
                           current_tokens |-> TokenCount(tok, first)]).current_chunk

\* the natural-break step runs on the chunk: always in create_document_splits,
\* only when text is left behind the chunk in the inline loop
BreakStepRuns(v, doc, pos, chunk) ==
    v = "method" \/ pos + Len(chunk) < Len(doc)

\* the cut the trailing window of `window` characters prescribes: just after
\* the last occurrence, inside the window, of the first separator in priority
\* order that occurs there; len(chunk) when none occurs
WindowCut(chunk, window) ==
    LET search_start == Max(0, Len(chunk) - window)
        occ(s)  == {i \in search_start..Len(chunk) : OccursAt(chunk, break_points[s], i)}
        present == {s \in 1..Len(break_points) : occ(s) # {}}
    IN  IF present = {}
        THEN Len(chunk)
        ELSE LET s == CHOOSE x \in present : \A y \in present : x <= y
                 i == CHOOSE x \in occ(s) : \A y \in occ(s) : y <= x
             IN  i + Len(break_points[s])

\* C21: whenever the natural-break step runs on a non-empty candidate chunk,
\* the split ends at the cut prescribed by the chunk's trailing window (the
\* last occurrence inside the window of the first separator, in priority
\* order, that occurs there; the binary-search boundary when none occurs), and
\* the cut lies in [1, len(chunk)].
C21_BreakInsideTrailingWindow ==
    [][splits' # splits =>
          LET chunk == CandidateChunk(variant, content, current_position,
                                      tokenizer, max_tokens)
              sp    == splits'[Len(splits')]
              cut   == sp.end - sp.start
          IN  (Len(chunk) > 0 /\ BreakStepRuns(variant, content, current_position, chunk)) =>
                  /\ cut = WindowCut(chunk, Window)
                  /\ cut >= 1
                  /\ cut <= Len(chunk)]_vars

----------------------------------------------------------------------------
(* SpecLayout: the index ranges the quantizer routines cut a vector into,   *)
(* for every dimension dim and every n_segments (a parameter of             *)
(* VectorStore.__init__) with 1 <= n_segments <= dim.  A range is the slice *)
(* [start, end) the routine takes, clamped as Python clamps a slice.        *)

\* largest dimension
MaxDim == 6

\* train_product_quantizer: vectors[:, start:end] for i in range(n_segments)
\* segments cut without handing the remainder to the last one
TrainSegments_NoRemainder(dim, M) ==
    LET seg == dim \div M
    IN  [i \in 1..M |->
            [start |-> PyIndex((i - 1) * seg, dim),
             end   |-> PyIndex((i - 1) * seg + seg, dim)]]

TrainSegments(dim, M) ==
    LET seg == dim \div M
    IN  [i \in 1..M |->
            [start |-> PyIndex((i - 1) * seg, dim),
             end   |-> PyIndex(IF i - 1 < M - 1 THEN (i - 1) * seg + seg ELSE dim, dim)]]

\* encode_vectors: vectors[:, start:end] for m in range(n_segments), with
\* self.segment_size as training left it and width = vectors.shape[1]
EncodeSegments(seg_size, M, width) ==
    [m \in 1..M |->
        [start |-> PyIndex((m - 1) * seg_size, width),
         end   |-> PyIndex(IF m - 1 < M - 1 THEN (m - 1) * seg_size + seg_size ELSE width,
                           width)]]

\* _split_vector: np.array_split(vector, n_segments) cuts len % n_segments
\* parts of len // n_segments + 1 elements, then the rest of len // n_segments
SplitSegments(len, M) ==
    LET each == len \div M
        more == len % M
    IN  [j \in 1..M |->
            [start |-> (j - 1) * each + Min(j - 1, more),
             end   |-> j * each + Min(j, more)]]

\* the reconstruction loop: vector[start_idx:end_idx] for every (code,
\* codebook) of zip(pq_code, codebooks), on a vector of `size` zeros
ReconstructSlices(seg_size, M, size) ==
    [i \in 1..M |->
        [start |-> PyIndex((i - 1) * seg_size, size),
         end   |-> PyIndex((i - 1) * seg_size + seg_size, size)]]

\* the assignment of codebook i's centre (which has the length of the segment
\* it was trained on) to its slice raises unless the lengths agree or the
\* centre has one coordinate, which numpy broadcasts
SliceAssignRaises(slices, trained) ==
    \E i \in 1..Len(slices) :
        LET centre_len == trained[i].end - trained[i].start
        IN  centre_len # slices[i].end - slices[i].start /\ centre_len # 1

InitLayout ==
    /\ SplitIdle
    /\ VectorStoreInit
    /\ ck = NoChunking
    /\ conn = NoConnect
    /\ is_connected = FALSE
    /\ svc_call = NoServiceCall
    /\ ui = NoSession
    /\ saved = NoSaved
    /\ mon = NoMonitor
    /\ \E dim \in 1..MaxDim : \E M \in 1..dim :
          layout = [NoLayout EXCEPT !.dim = dim, !.n_segments = M]

\* train_product_quantizer on vectors of dimension dim
LayoutTrain ==
    /\ layout' = [layout EXCEPT !.segment_size = layout.dim \div layout.n_segments,
                                !.train = TrainSegments(layout.dim, layout.n_segments)]
    /\ UNCHANGED <<splitVars, vsVars, svcVars, ckVars, ui, saved, mon>>

\* encode_vectors on vectors of dimension dim (before training it raises
\* TypeError at m * self.segment_size and cuts nothing)
LayoutEncode ==
    /\ layout.segment_size # None
    /\ layout' = [layout EXCEPT !.encode = EncodeSegments(layout.segment_size,
                                                          layout.n_segments, layout.dim)]
    /\ UNCHANGED <<splitVars, vsVars, svcVars, ckVars, ui, saved, mon>>

\* _split_vector(query) in compute_distance_table, for a query of dimension dim
LayoutSplitVector ==
    /\ layout' = [layout EXCEPT !.split = SplitSegments(layout.dim, layout.n_segments)]
    /\ UNCHANGED <<splitVars, vsVars, svcVars, ckVars, ui, saved, mon>>

\* the reconstruction loop of Save to DB for one PQ code of a trained
\* quantizer.  np.zeros(768) has the BERT dimension, which is the dimension
\* of every vector the program trains on: the zero vector has dim entries.
LayoutReconstruct ==
    /\ layout.segment_size # None
    /\ layout.train # <<>>
    /\ LET slices == ReconstructSlices(layout.segment_size, layout.n_segments, layout.dim)
       IN  layout' = [layout EXCEPT !.reconstruct =
                         [outcome |-> IF SliceAssignRaises(slices, layout.train)
                                      THEN "raised" ELSE "returned",
                          slices  |-> slices]]
    /\ UNCHANGED <<splitVars, vsVars, svcVars, ckVars, ui, saved, mon>>

NextLayout == LayoutTrain \/ LayoutEncode \/ LayoutSplitVector \/ LayoutReconstruct

SpecLayout == InitLayout /\ [][NextLayout]_vars

----------------------------------------------------------------------------
(* Claims about the segment layout (checked under SpecLayout) *)

\* ranges cut [0, dim) into contiguous, non-overlapping segments that cover
\* it, all of length floor(dim / M) but the last, which takes the remainder
IsSegmentLayout(ranges, dim, M) ==
    /\ Len(ranges) = M
    /\ ranges[1].start = 0
    /\ ranges[M].end = dim
    /\ \A m \in 1..(M - 1) :
          /\ ranges[m].end = ranges[m + 1].start
          /\ ranges[m].end - ranges[m].start = dim \div M
    /\ ranges[M].end - ranges[M].start = dim - (M - 1) * (dim \div M)

\* C22: for every dimension D and every n_segments M with 1 <= M <= D,
\* train_product_quantizer and encode_vectors cut [0, D) into the same M
\* contiguous, non-overlapping segments that cover [0, D): segments 0..M-2
\* have length floor(D / M) and the last one absorbs the remainder.
C22_TrainAndEncodeCutTheSameSegments ==
    /\ (layout.train # <<>> => IsSegmentLayout(layout.train, layout.dim, layout.n_segments))
    /\ (layout.encode # <<>> =>
            /\ IsSegmentLayout(layout.encode, layout.dim, layout.n_segments)
            /\ layout.encode = layout.train)

\* C22 witness: both routines have cut a dimension that n_segments does not
\* divide into three or more segments
C22_Witness ==
    /\ layout.train # <<>>
    /\ layout.encode # <<>>
    /\ layout.n_segments >= 3
    /\ layout.dim % layout.n_segments # 0

\* C23: for every dimension D and every n_segments M with 1 <= M <= D, the
\* slice of the query that compute_distance_table compares with codebook m
\* covers exactly the index range of segment m of train_product_quantizer
\* (and so of encode_vectors).
C23_QuerySlicesAreTheTrainedSegments ==
    (layout.split # <<>> /\ layout.train # <<>>) => layout.split = layout.train

\* C26: the reconstruction of a vector from a PQ code returns a vector of
\* length D in which, for every segment m, the entries over segment m's index
\* range (the last segment's remainder included) are the centroid code[m] of
\* codebook m: every centroid is assigned to the range it was trained on.
C26_ReconstructionConcatenatesCentroids ==
    layout.reconstruct.outcome # "none" =>
        /\ layout.reconstruct.outcome = "returned"
        /\ layout.reconstruct.slices = layout.train
        /\ layout.reconstruct.slices[layout.n_segments].end = layout.dim

----------------------------------------------------------------------------
(* Claims about the distance table (checked under SpecANN) *)

\* C24: the distance approximate_nearest_neighbor reports for a stored code i
\* is the sum over the segments m of distance_table[m][pq_codes[i][m]], the
\* table being the one compute_distance_table builds for the query, with
\* n_segments rows and n_clusters columns.
C24_DistanceIsSumOfTableEntries ==
    ann.outcome = "returned" =>
        LET table == compute_distance_table(ann.query, codebooks)
        IN  /\ Len(table) = n_segments
            /\ \A m \in 1..n_segments : Len(table[m]) = n_clusters
            /\ \A j \in 1..Len(ann.result) :
                  LET code == pq_codes[ann.result[j][1] + 1]
                  IN  ann.result[j][2] =
                          SumOver([m \in 1..n_segments |-> table[m][code[m] + 1]],
                                  1..n_segments)

\* C24 witness: every stored code is reported, one of them at a distance to
\* which every segment contributes
C24_Witness ==
    /\ ann.outcome = "returned"
    /\ Len(pq_codes) >= 2
    /\ Len(ann.result) = Len(pq_codes)
    /\ \E j \in 1..Len(ann.result) :
          LET code == pq_codes[ann.result[j][1] + 1]
          IN  \A m \in 1..n_segments :
                  compute_distance_table(ann.query, codebooks)[m][code[m] + 1] > 0

\* the vector a PQ code stands for: the centroids code[m] of the codebooks,
\* concatenated
RECURSIVE ConcatCentroids(_, _, _)
ConcatCentroids(code, cbs, m) ==
    IF m > Len(code) THEN <<>>
    ELSE cbs[m][code[m] + 1] \o ConcatCentroids(code, cbs, m + 1)

\* C25: entry [m][k] of the distance table is the squared Euclidean distance
\* between the query's segment-m slice and centroid k of codebook m, so the
\* distance reported for a stored code is the squared Euclidean distance
\* between the query and the code's reconstructed vector.
C25_TableHoldsSquaredDistances ==
    ann.outcome = "returned" =>
        /\ \A m \in 1..Len(codebooks), k \in 1..n_clusters :
              compute_distance_table(ann.query, codebooks)[m][k]
                  = SqDist(_split_vector(ann.query)[m], codebooks[m][k])
        /\ \A j \in 1..Len(ann.result) :
              ann.result[j][2]
                  = SqDist(ann.query,
                           ConcatCentroids(pq_codes[ann.result[j][1] + 1], codebooks, 1))

----------------------------------------------------------------------------
(* Claim about what replaces the codebooks (checked under SpecVS) *)

\* C27: training is the only operation that creates or replaces codebooks: a
\* process_document call that changes codebooks or segment_size is one that
\* called train_product_quantizer.
C27_OnlyTrainingReplacesCodebooks ==
    [][(call'.outcome # "none"
           /\ (codebooks' # codebooks \/ segment_size' # segment_size))
          => call'.trained]_vars

----------------------------------------------------------------------------
(* SpecUI: the query handlers of one Streamlit session (render_chat_        *)
(* interface, render_document_chat, render_token_analysis).  A session runs *)
(* one script at a time: a click made while a script runs is a rerun        *)
(* request, the running script is stopped by an exception raised at one of  *)
(* its Streamlit calls (a BaseException, which process_query's "except      *)
(* Exception" does not catch) or runs to its end, and only then does the    *)
(* script run for the click start.                                          *)

\* the flags when the try statement around process_query is left with the
\* flag reset at the end of the try body
FlagsAfterQuery_ResetInTry(flags, x, outcome) ==
    IF outcome = "raised" THEN flags ELSE [flags EXCEPT ![x] = "False"]

\* the flags when the try statement is left: finally resets the flag of the
\* input, whatever process_query did
FlagsAfterQuery(flags, x, outcome) == [flags EXCEPT ![x] = "False"]

InitUI ==
    /\ SplitIdle
    /\ VectorStoreInit
    /\ ServiceIdle

\* the script run for a click on the button of input x, the query text being
\* empty or not, up to the call of process_query
HandlerEnter ==
    /\ ui.pc = "idle"
    /\ \E x \in QueryInputs, q \in BOOLEAN :
          /\ ui.pending = <<>> \/ ui.pending = <<x, q>>
          /\ ui' = IF ~q
                   THEN [ui EXCEPT !.pending = <<>>, !.input = x, !.outcome = "warning",
                                   !.seen = "none", !.started = FALSE]
                   ELSE LET flag == IF ui.flags[x] = "absent" THEN "False" ELSE ui.flags[x]
                        IN  IF flag = "True"
                            THEN [ui EXCEPT !.pending = <<>>, !.input = x,
                                            !.outcome = "skipped",
                                            !.seen = "True", !.started = FALSE]
                            ELSE [ui EXCEPT !.pending = <<>>, !.input = x,
                                            !.flags[x] = "True", !.pc = "process_query",
                                            !.outcome = "running",
                                            !.seen = "False", !.started = TRUE]
    /\ UNCHANGED <<splitVars, vsVars, svcVars, ckVars, layout, saved, mon>>

\* a click while the script runs process_query: a rerun request
ClickWhileRunning ==
    /\ ui.pc = "process_query"
    /\ ui.pending = <<>>
    /\ \E x \in QueryInputs, q \in BOOLEAN : ui' = [ui EXCEPT !.pending = <<x, q>>]
    /\ UNCHANGED <<splitVars, vsVars, svcVars, ckVars, layout, saved, mon>>

\* process_query returns the response, returns None (nothing received, or an
\* Exception caught), or raises; the handler's finally clause runs and the
\* script run ends
HandlerEnd ==
    /\ ui.pc = "process_query"
    /\ \E outcome \in {"response", "None", "raised"} :
          ui' = [ui EXCEPT !.flags = FlagsAfterQuery(ui.flags, ui.input, outcome),
                           !.pc = "idle",
                           !.outcome = outcome]
    /\ UNCHANGED <<splitVars, vsVars, svcVars, ckVars, layout, saved, mon>>

NextUI == HandlerEnter \/ ClickWhileRunning \/ HandlerEnd

SpecUI == InitUI /\ [][NextUI]_vars

----------------------------------------------------------------------------
(* SpecSaved: data/responses.json and st.session_state.saved_responses.    *)
(* An element of either list is a response (a dict) or a list:              *)
(*   [kind |-> "dict", id |-> r, items |-> <<>>]                            *)
(*   [kind |-> "list", id |-> "", items |-> the elements]                   *)

\* most elements of the file's list
MaxFile == 4

\* the responses saved
Responses == {"r1", "r2"}

\* list.pop(idx) for a valid 0-based idx: the list it leaves
Pop(list, idx) == SubSeq(list, 1, idx) \o SubSeq(list, idx + 2, Len(list))

\* save_response_to_file(response): the file's list is loaded, response is
\* appended to it, the list is written back and assigned to
\* st.session_state.saved_responses.  When reading or writing raises, the
\* exception is logged and nothing is assigned.
save_response_to_file(file, session, response, ok) ==
    IF ok
    THEN [file |-> Append(file, response), session |-> Append(file, response)]
    ELSE [file |-> file, session |-> session]

\* the session starts with the list load_saved_responses reads from a file
\* of responses
InitSaved ==
    /\ SplitIdle
    /\ VectorStoreInit
    /\ ck = NoChunking
    /\ conn = NoConnect
    /\ is_connected = FALSE
    /\ svc_call = NoServiceCall
    /\ layout = NoLayout
    /\ ui = NoSession
    /\ mon = NoMonitor
    /\ \E n \in 0..2 : \E ids \in [1..n -> Responses] :
          LET list == [i \in 1..n |-> [kind |-> "dict", id |-> ids[i], items |-> <<>>]]
          IN  saved = [NoSaved EXCEPT !.file = list, !.session = list]

\* a call save_response_to_file(response) with one response
SaveResponse ==
    /\ Len(saved.file) < MaxFile
    /\ \E r \in Responses, ok \in BOOLEAN :
          LET res == save_response_to_file(saved.file, saved.session,
                                           [kind |-> "dict", id |-> r, items |-> <<>>], ok)
          IN  saved' = [file |-> res.file, session |-> res.session,
                        last |-> IF ok THEN "save" ELSE "save_failed",
                        idx |-> None, before |-> saved.session]
    /\ UNCHANGED <<splitVars, vsVars, svcVars, ckVars, layout, ui, mon>>

\* the Delete button of saved response idx (rendered for dict elements only)
DeleteSaved ==
    /\ Len(saved.file) < MaxFile
    /\ \E idx \in 0..(Len(saved.session) - 1), ok \in BOOLEAN :
          /\ saved.session[idx + 1].kind = "dict"
          /\ LET popped == Pop(saved.session, idx)
                 res    == save_response_to_file(saved.file, popped,
                               [kind |-> "list", id |-> "", items |-> popped], ok)
             IN  saved' = [file |-> res.file, session |-> res.session,
                           last |-> IF ok THEN "delete" ELSE "delete_failed",
                           idx |-> idx, before |-> saved.session]
    /\ UNCHANGED <<splitVars, vsVars, svcVars, ckVars, layout, ui, mon>>

NextSaved == SaveResponse \/ DeleteSaved

SpecSaved == InitSaved /\ [][NextSaved]_vars

\* C29: after the Delete action on saved response idx, the file and
\* st.session_state.saved_responses both hold the previous list without
\* element idx (one element fewer, the others unchanged and in order), and the
\* file is always a flat list of responses: no element of it is a list.
C29_DeleteRemovesOneEntry ==
    /\ (saved.last = "delete" =>
            /\ saved.session = Pop(saved.before, saved.idx)
            /\ saved.file = Pop(saved.before, saved.idx)
            /\ Len(saved.file) = Len(saved.before) - 1)
    /\ \A i \in 1..Len(saved.file) : saved.file[i].kind = "dict"

----------------------------------------------------------------------------
(* SpecMonitor: one call monitor_service_status(service_arn, check_interval,*)
(* max_checks) of tests/network/check_apprunner_status.py                   *)

\* largest max_checks
MaxChecks == 3

\* what get_service_status returns: None when a client call raises (fetched
\* is FALSE), else the service's Status and the Status of the first entry of
\* the operation list ("none" when the list is empty)
StatusInfos ==
    {[fetched |-> FALSE, status |-> "none", latest_operation |-> "none"]}
    \cup [fetched : {TRUE},
          status : {"RUNNING", "PAUSED", "STOPPED", "OPERATION_IN_PROGRESS", "CREATE_FAILED"},
          latest_operation : {"none", "SUCCEEDED", "FAILED", "IN_PROGRESS"}]

\* a loop body that takes every stable status for success
Decision_AnyStableStatus(status_info) ==
    IF ~status_info.fetched
    THEN "False"
    ELSE IF status_info.status \in {"RUNNING", "PAUSED", "STOPPED"}
         THEN "True"
         ELSE "continue"

\* what one iteration of the while loop does with status_info: return True,
\* return False, or go on polling
Decision(status_info) ==
    IF ~status_info.fetched
    THEN "False"
    ELSE IF status_info.status \in {"RUNNING", "PAUSED", "STOPPED"}
         THEN IF status_info.latest_operation = "SUCCEEDED" THEN "True"
              ELSE IF status_info.latest_operation = "FAILED" THEN "False"
              ELSE "continue"
         ELSE "continue"

InitMonitor ==
    /\ SplitIdle
    /\ VectorStoreInit
    /\ ck = NoChunking
    /\ conn = NoConnect
    /\ is_connected = FALSE
    /\ svc_call = NoServiceCall
    /\ layout = NoLayout
    /\ ui = NoSession
    /\ saved = NoSaved
    /\ \E n \in 0..MaxChecks : mon = [NoMonitor EXCEPT !.max_checks = n, !.pc = "loop"]

\* one iteration of the while loop: get_service_status, the test for a stable
\* state, then last_status, check_count and time.sleep
MonitorPoll ==
    /\ mon.pc = "loop"
    /\ mon.check_count < mon.max_checks
    /\ \E status_info \in StatusInfos :
          LET d == Decision(status_info)
          IN  mon' = IF d = "continue"
                     THEN [mon EXCEPT !.polls = @ + 1, !.status_info = status_info,
                                      !.last_status = status_info.status,
                                      !.check_count = @ + 1]
                     ELSE [mon EXCEPT !.polls = @ + 1, !.status_info = status_info,
                                      !.pc = "returned", !.result = d]
    /\ UNCHANGED <<splitVars, vsVars, svcVars, ckVars, layout, ui, saved>>

\* the while loop ends: "Monitoring timed out", return False
MonitorTimeout ==
    /\ mon.pc = "loop"
    /\ ~(mon.check_count < mon.max_checks)
    /\ mon' = [mon EXCEPT !.pc = "returned", !.result = "False"]
    /\ UNCHANGED <<splitVars, vsVars, svcVars, ckVars, layout, ui, saved>>

NextMonitor == MonitorPoll \/ MonitorTimeout

\* a running call goes on: the client calls and time.sleep return
SpecMonitor == InitMonitor /\ [][NextMonitor]_vars /\ WF_vars(NextMonitor)

\* the last status fetched is a stable one
StableStatus == mon.status_info.status \in {"RUNNING", "PAUSED", "STOPPED"}

\* C30: monitor_service_status polls at most max_checks times and always
\* returns.  It returns True only on a stable status (RUNNING, PAUSED,
\* STOPPED) whose latest operation SUCCEEDED; it returns False as soon as a
\* fetch fails or a stable status comes with a FAILED latest operation; it
\* returns False after max_checks polls without a decision.
C30_MonitorReturnsWithinMaxChecks ==
    /\ [](/\ mon.polls <= mon.max_checks
          /\ (mon.result = "True" =>
                 /\ mon.status_info.fetched
                 /\ StableStatus
                 /\ mon.status_info.latest_operation = "SUCCEEDED")
          /\ ((mon.polls > 0 /\ ~mon.status_info.fetched) =>
                 (mon.pc = "returned" /\ mon.result = "False"))
          /\ ((StableStatus /\ mon.status_info.latest_operation = "FAILED") =>
                 (mon.pc = "returned" /\ mon.result = "False"))
          /\ ((StableStatus /\ mon.status_info.latest_operation = "SUCCEEDED") =>
                 (mon.pc = "returned" /\ mon.result = "True"))
          /\ ((mon.pc = "returned" /\ mon.result = "False") =>
                 \/ (mon.polls > 0 /\ ~mon.status_info.fetched)
                 \/ (StableStatus /\ mon.status_info.latest_operation = "FAILED")
                 \/ mon.polls = mon.max_checks)
          /\ (mon.pc = "returned" => mon.result \in {"True", "False"}))
    /\ <>(mon.pc = "returned")

\* C30 witness: the call returned True at its last allowed poll, after polls
\* that decided nothing
C30_Witness ==
    /\ mon.pc = "returned"
    /\ mon.result = "True"
    /\ mon.max_checks >= 2
    /\ mon.polls = mon.max_checks
====
